---- MODULE Spec2Model ----
(***************************************************************************)
(* Transmission front end: the RSS feed manager (rss-manager.js), the      *)
(* engine client with its removal workaround and debounced restart         *)
(* (transmission.js) and the disk monitor (second half of transmission.js). *)
(*                                                                         *)
(* JavaScript is single threaded: a handler runs without interruption from *)
(* one await to the next.  Every action below is one such synchronous      *)
(* block; the poll, the eviction pass and the removal are cut into actions  *)
(* exactly at their awaits.                                                *)
(***************************************************************************)
EXTENDS Integers, Sequences, FiniteSets, TLC

(***************************************************************************)
(* Bounds of the model.                                                    *)
(***************************************************************************)
MaxFeeds == 2      \* feed identifiers handed out by addFeed
MaxDocLen == 2     \* items in one fetched feed document
MaxPolls == 2      \* pollFeed / pollAllFeeds invocations in flight at once
MaxRuns == 2       \* pollFeed bodies started over one behaviour
MaxCrashes == 1    \* process crashes (with restart) over one behaviour

(***************************************************************************)
(* Strings.  TLC cannot look inside a string, so the predicates the code   *)
(* computes on strings (endsWith, includes, RegExp.test) are tables over   *)
(* the strings of the model.                                               *)
(***************************************************************************)
NoString == ""
NullTime == 0            \* last_poll: null; real timestamps are >= 1
\* Number.MAX_SAFE_INTEGER is 2^53 - 1; TLC integers end at 2^31 - 1, which is as far
\* above every size of the model as the real value is
MAX_SAFE_INTEGER == 2147483647

TorrentMime == "application/x-bittorrent"

\* raw feed entries as feedparser hands them to parseFeed
RawAlpha ==
  [title |-> "Alpha", link |-> "http://t/alpha.html", guid |-> "guid-alpha",
   pubdate |-> 1, description |-> "first",
   enclosures |-> << [type |-> TorrentMime, url |-> "http://t/alpha.torrent",
                      length |-> "500"] >>]
RawBeta ==
  [title |-> "Beta", link |-> "http://t/beta.torrent", guid |-> NoString,
   pubdate |-> 2, description |-> "second",
   enclosures |-> << >>]
RawItems == {RawAlpha, RawBeta}

\* String.prototype.endsWith('.torrent')
EndsWithTorrent(s) == s \in {"http://t/alpha.torrent", "http://t/beta.torrent"}

\* link.includes('/download/') || 'action=download' || 'rss_dl.php' || '/dl/' || 'download.php'
HasDownloadMarker(s) == s \in {"http://t/download/3"}

\* pattern texts too long to write out, by their length
Long200 == "<a pattern of 200 characters>"
Long201 == "<a pattern of 201 characters>"

\* new RegExp(pattern) does not throw (the flag 'i' makes no difference to that)
Compiles(pattern) == pattern \in {"", ".*", "Alpha", Long200, Long201}

\* pattern.length
PatternLength(pattern) ==
  IF pattern = Long200 THEN 200
  ELSE IF pattern = Long201 THEN 201
  ELSE IF pattern = "Alpha" THEN 5
  ELSE IF pattern = ".*" THEN 2
  ELSE IF pattern = "(" THEN 1
  ELSE 0

\* new RegExp(pattern, 'i').test(title); the long patterns match no title of the model
Patterns == {".*", "Alpha"}
RegexTest(pattern, title) ==
  \/ pattern = ".*"
  \/ pattern = ""
  \/ pattern = "Alpha" /\ title \in {"Alpha", "ALPHA"}

\* z.string().url()
IsUrl(s) == s \in {"http://feeds/a", "http://feeds/b"}

\* crypto md5 digest of the content, as a tagged value
Md5(content) == <<"md5", content>>

Range(s) == {s[i] : i \in DOMAIN s}

(***************************************************************************)
(* parseFeed: the item built from each feedparser entry.                   *)
(***************************************************************************)
ParseItem(raw) ==
  [title |-> raw.title,
   link |-> raw.link,
   guid |-> IF raw.guid # NoString THEN raw.guid ELSE raw.link,
   pubDate |-> raw.pubdate,
   description |-> raw.description,
   enclosures |-> raw.enclosures]

Items == {ParseItem(raw) : raw \in RawItems}

RECURSIVE SeqsUpTo(_, _)
SeqsUpTo(S, n) ==
  IF n = 0 THEN {<< >>}
  ELSE LET shorter == SeqsUpTo(S, n - 1)
       IN shorter \cup {Append(d, x) : d \in {e \in shorter : Len(e) = n - 1}, x \in S}

\* the documents a fetch can return
Docs == SeqsUpTo(Items, MaxDocLen) \ {<< >>}

(***************************************************************************)
(* getItemHash and matchesRules.                                           *)
(***************************************************************************)
\* a fingerprint that starts from the title
getItemHashTitleFirst(item) ==
  LET hashContent == IF item.title # NoString THEN item.title
                     ELSE IF item.link # NoString THEN item.link
                     ELSE item.guid
  IN Md5(hashContent)

getItemHash(item) ==
  LET hashContent == IF item.guid # NoString THEN item.guid
                     ELSE IF item.link # NoString THEN item.link
                     ELSE item.title
  IN Md5(hashContent)

Fingerprints == {getItemHash(i) : i \in Items}

\* feed entries to take fingerprints of: with and without guid and link, a guid
\* that another entry has as its link, and dates, descriptions and enclosures
\* that vary freely
RawEntries ==
  [title : {"Alpha", "Beta"},
   link : {NoString, "http://t/1", "urn:2"},
   guid : {NoString, "urn:2", "urn:3"},
   pubdate : {1, 2},
   description : {"first", "second"},
   enclosures : {<< >>, << [type |-> TorrentMime, url |-> "http://t/alpha.torrent",
                           length |-> "500"] >>}]

\* parseInt of an enclosure's length, which feedparser hands on as the text of the
\* attribute (NoString when the attribute is missing or empty)
ParseInt(s) ==
  CASE s = "0" -> 0
    [] s = "100" -> 100
    [] s = "200" -> 200
    [] s = "500" -> 500
    [] s = "800" -> 800
    [] s = "900" -> 900

\* enclosures.find(e => e.type === 'application/x-bittorrent' || e.url.endsWith('.torrent'))
FindTorrentEnclosure(encs) ==
  LET hits == {i \in DOMAIN encs :
                 encs[i].type = TorrentMime \/ EndsWithTorrent(encs[i].url)}
  IN IF hits = {} THEN 0
     ELSE CHOOSE i \in hits : \A j \in hits : i <= j

\* a matchesRules that looks at the size before the title and the link
matchesRulesSizeFirst(item, rules) ==
  LET e == FindTorrentEnclosure(item.enclosures)
      url1 == IF e # 0 THEN item.enclosures[e].url ELSE NoString
      torrentSize == IF e # 0 THEN item.enclosures[e].length ELSE NoString
      size == IF torrentSize # NoString THEN ParseInt(torrentSize) ELSE 0
      url2 == IF url1 = NoString /\ item.link # NoString /\ EndsWithTorrent(item.link)
              THEN item.link ELSE url1
      url3 == IF url2 = NoString /\ item.link # NoString /\ HasDownloadMarker(item.link)
              THEN item.link ELSE url2
  IN IF torrentSize # NoString /\ (size < rules.minSize \/ size > rules.maxSize)
     THEN [matches |-> FALSE, reason |-> "size", torrentUrl |-> NoString]
     ELSE IF ~RegexTest(rules.regex, item.title)
     THEN [matches |-> FALSE, reason |-> "regex", torrentUrl |-> NoString]
     ELSE IF url3 = NoString
     THEN [matches |-> FALSE, reason |-> "no-torrent-link", torrentUrl |-> NoString]
     ELSE [matches |-> TRUE, reason |-> "", torrentUrl |-> url3]

\* a matchesRules that takes a declared size of 0 for no size
matchesRulesZeroSkipped(item, rules) ==
  IF ~Compiles(rules.regex)
  THEN [matches |-> FALSE, reason |-> "error", torrentUrl |-> NoString]
  ELSE IF ~RegexTest(rules.regex, item.title)
  THEN [matches |-> FALSE, reason |-> "regex", torrentUrl |-> NoString]
  ELSE
    LET e == FindTorrentEnclosure(item.enclosures)
        url1 == IF e # 0 THEN item.enclosures[e].url ELSE NoString
        torrentSize == IF e # 0 THEN item.enclosures[e].length ELSE NoString
        size == IF torrentSize # NoString THEN ParseInt(torrentSize) ELSE 0
        url2 == IF url1 = NoString /\ item.link # NoString /\ EndsWithTorrent(item.link)
                THEN item.link ELSE url1
        url3 == IF url2 = NoString /\ item.link # NoString /\ HasDownloadMarker(item.link)
                THEN item.link ELSE url2
    IN IF url3 = NoString
       THEN [matches |-> FALSE, reason |-> "no-torrent-link", torrentUrl |-> NoString]
       ELSE IF torrentSize # NoString /\ size # 0 /\ (size < rules.minSize \/ size > rules.maxSize)
       THEN [matches |-> FALSE, reason |-> "size", torrentUrl |-> NoString]
       ELSE [matches |-> TRUE, reason |-> "", torrentUrl |-> url3]

matchesRules(item, rules) ==
  IF ~Compiles(rules.regex)
  THEN [matches |-> FALSE, reason |-> "error", torrentUrl |-> NoString]
  ELSE IF ~RegexTest(rules.regex, item.title)
  THEN [matches |-> FALSE, reason |-> "regex", torrentUrl |-> NoString]
  ELSE
    LET e == FindTorrentEnclosure(item.enclosures)
        url1 == IF e # 0 THEN item.enclosures[e].url ELSE NoString
        torrentSize == IF e # 0 THEN item.enclosures[e].length ELSE NoString
        size == IF torrentSize # NoString THEN ParseInt(torrentSize) ELSE 0
        url2 == IF url1 = NoString /\ item.link # NoString /\ EndsWithTorrent(item.link)
                THEN item.link ELSE url1
        url3 == IF url2 = NoString /\ item.link # NoString /\ HasDownloadMarker(item.link)
                THEN item.link ELSE url2
    IN IF url3 = NoString
       THEN [matches |-> FALSE, reason |-> "no-torrent-link", torrentUrl |-> NoString]
       ELSE IF torrentSize # NoString /\ (size < rules.minSize \/ size > rules.maxSize)
       THEN [matches |-> FALSE, reason |-> "size", torrentUrl |-> NoString]
       ELSE [matches |-> TRUE, reason |-> "", torrentUrl |-> url3]

\* items and rules to call matchesRules with: titles that differ in case or not at
\* all from the pattern, links that are a torrent, a download endpoint, a page or
\* missing, enclosures that are a torrent, a torrent without url, a picture, both
\* or none, with declared sizes inside and outside the rules' range
RuleItems ==
  [title : {"Alpha", "ALPHA", "Gamma"},
   link : {NoString, "http://t/alpha.html", "http://t/beta.torrent", "http://t/download/3"},
   guid : {"guid"},
   enclosures :
     {<< >>,
      << [type |-> "image/png", url |-> "http://t/cover.png", length |-> "900"] >>,
      << [type |-> TorrentMime, url |-> NoString, length |-> "900"] >>,
      << [type |-> "image/png", url |-> "http://t/cover.png", length |-> "500"],
         [type |-> "", url |-> "http://t/alpha.torrent", length |-> "100"] >>}
     \cup {<< [type |-> TorrentMime, url |-> "http://t/alpha.torrent", length |-> n] >> :
             n \in {NoString, "0", "100", "200", "500", "800", "900"}}]

RuleSets ==
  [regex : {".*", "Alpha"}, minSize : {0, 200}, maxSize : {800, MAX_SAFE_INTEGER},
   category : {""}]

(***************************************************************************)
(* The engine: what transmission-daemon makes of an add-by-url request.    *)
(* The torrent's name comes from the torrent file, not from the feed item. *)
(***************************************************************************)
TorrentOfUrl(url) ==
  IF url = "http://t/alpha.torrent"
  THEN [hashString |-> "hA", name |-> "Alpha"]
  ELSE [hashString |-> "hB", name |-> "Beta.mkv"]

(***************************************************************************)
(* State.                                                                  *)
(***************************************************************************)
VARIABLES
  feedsFile,     \* data/rss-feeds.json: [ok, doc]; doc = {feeds, seenItems, nextId}
  polls,         \* the pollFeed / pollAllFeeds invocations in flight, by slot
  torrents,      \* the engine's live torrent list
  nextTorrentId, \* the engine's next session-local torrent id
  metadata,      \* the ownership ledger (torrent-metadata store), by hashString
  clock,         \* what new Date() returns
  runs,          \* pollFeed bodies started so far
  crashes,       \* process crashes so far
  addRequests,   \* history: add requests issued to the engine, per fingerprint
  lastResult,    \* history: outcome of the pollFeed that completed last, if nothing
                 \* else touched the store since
  effects,       \* history: what the completed polls have saved: fingerprints, and
                 \* per feed the matched_count increments and the last last_poll
  stateFiles,    \* hashStrings whose resume and torrent files are in the engine's
                 \* config directory
  passes,        \* the autoRemoveOldestTorrents invocations, by slot
  passRuns,      \* eviction passes started so far
  restartTimeout, \* module variable of transmission.js: the timer handle, 0 for null
  timers,        \* restart timers that are set and have not fired
  executing,     \* restart timer callbacks that are running, with their position
  nextTimer,     \* the next timer handle setTimeout returns
  restartCmds,   \* history: 'systemctl restart' commands issued
  requests,      \* history: calls of scheduleTransmissionRestart
  windows,       \* history: those calls that found no restart scheduled or running
  client,        \* TransmissionService.client: TRUE when the handle exists
  deletes,       \* the DELETE /:id requests, by slot
  deleteRuns,    \* DELETE /:id requests served so far
  toggled,       \* history: the PATCH /:id/block-auto-remove requests answered
  egress,        \* the parseFeed call in flight or answered last: position, URL
                 \* protocol, resolved address, error, whether fetch was called
  lastRequest,   \* history: the feed create or update request answered last, with
                 \* its body and the status of the answer; << >> before the first
  evaluated,     \* history: the matchesRules call made last, with its result;
                 \* << >> before the first
  created,       \* history: the ids addFeed has handed out, in order
  hashed,        \* history: the getItemHash call made last, with its result;
                 \* << >> before the first
  age,           \* seconds since the pending restart timer was set
  quiet,         \* seconds since scheduleTransmissionRestart was last called
  answer         \* history, by slot: what the pollFeed or pollAllFeeds call of
                 \* the slot has given its caller so far; forgotten when a feed
                 \* route is served

\* what only the removal and the disk monitor touch
diskVars == <<passes, passRuns, restartTimeout, timers, executing, nextTimer,
              restartCmds, requests, windows>>

\* what only the torrent delete route touches
routeVars == <<deletes, deleteRuns, toggled>>

\* what the feed routes, parseFeed and matchesRules leave behind for inspection
edgeVars == <<egress, lastRequest, evaluated, created, hashed>>

\* seconds on the wall clock, counted while a restart timer is pending
timeVars == <<age, quiet>>

\* what only the feed manager touches
feedVars == <<feedsFile, polls, runs, crashes, addRequests, lastResult, effects, answer>>

vars == <<feedsFile, polls, torrents, nextTorrentId, metadata, clock, runs,
          crashes, addRequests, lastResult, effects, stateFiles, passes, passRuns,
          restartTimeout, timers, executing, nextTimer, restartCmds, requests,
          windows, client, deletes, deleteRuns, toggled, egress, lastRequest,
          evaluated, created, hashed, age, quiet, answer>>

Slots == 1..MaxPolls

\* slots are interchangeable: a new invocation takes the lowest free one
FreeSlot(p) == polls[p].pc = "idle" /\ \A q \in Slots : q < p => polls[q].pc # "idle"

AllIdle == \A p \in Slots : polls[p].pc = "idle"

(***************************************************************************)
(* The feed store: load, save and the feed CRUD operations.                *)
(***************************************************************************)
EmptyStore == [feeds |-> << >>, seenItems |-> << >>, nextId |-> 1]

\* a load that takes whatever is left in the file for the store
loadTrusting(file) == file.doc

\* JSON.parse of the file; an unreadable file gives the empty store
load(file) == IF file.ok THEN file.doc ELSE EmptyStore

\* writeFileSync(JSON.stringify(data))
save(data) == [ok |-> TRUE, doc |-> data]

\* feeds.findIndex(f => f.id === id), 1-based; 0 when there is none
FeedIndex(data, id) ==
  LET hits == {i \in DOMAIN data.feeds : data.feeds[i].id = id}
  IN IF hits = {} THEN 0 ELSE CHOOSE i \in hits : \A j \in hits : i <= j

FeedIds(data) == {data.feeds[i].id : i \in DOMAIN data.feeds}

RemoveAt(s, k) == [i \in 1..(Len(s) - 1) |-> IF i < k THEN s[i] ELSE s[i + 1]]

addFeed(data, url, rules) ==
  LET feed == [id |-> data.nextId,
               url |-> url,
               rules |-> [regex |-> IF rules.regex # NoString THEN rules.regex ELSE ".*",
                          minSize |-> rules.minSize,
                          maxSize |-> IF rules.maxSize # 0 THEN rules.maxSize
                                      ELSE MAX_SAFE_INTEGER,
                          category |-> rules.category],
               last_poll |-> NullTime,
               matched_count |-> 0]
  IN [data EXCEPT !.nextId = @ + 1, !.feeds = Append(@, feed)]

\* an optional field of an update is << >> (undefined) or <<value>>
Opt(o, old) == IF o = << >> THEN old ELSE o[1]

\* an update that forgets what the feed has seen, so that the new rule is applied
\* to the items already observed
updateFeedForgetting(data, id, updates) ==
  LET k == FeedIndex(data, id)
      feed == data.feeds[k]
      f1 == IF updates.url # NoString THEN [feed EXCEPT !.url = updates.url] ELSE feed
      f2 == IF updates.rules # << >>
            THEN [f1 EXCEPT !.rules =
                    [regex |-> Opt(updates.rules[1].regex, feed.rules.regex),
                     minSize |-> Opt(updates.rules[1].minSize, feed.rules.minSize),
                     maxSize |-> Opt(updates.rules[1].maxSize, feed.rules.maxSize),
                     category |-> Opt(updates.rules[1].category, feed.rules.category)]]
            ELSE f1
  IN [data EXCEPT !.feeds[k] = f2,
                  !.seenItems = [h \in {x \in DOMAIN @ : @[x].feed_id # id} |-> @[h]]]

updateFeed(data, id, updates) ==
  LET k == FeedIndex(data, id)
      feed == data.feeds[k]
      f1 == IF updates.url # NoString THEN [feed EXCEPT !.url = updates.url] ELSE feed
      f2 == IF updates.rules # << >>
            THEN [f1 EXCEPT !.rules =
                    [regex |-> Opt(updates.rules[1].regex, feed.rules.regex),
                     minSize |-> Opt(updates.rules[1].minSize, feed.rules.minSize),
                     maxSize |-> Opt(updates.rules[1].maxSize, feed.rules.maxSize),
                     category |-> Opt(updates.rules[1].category, feed.rules.category)]]
            ELSE f1
  IN [data EXCEPT !.feeds[k] = f2]

\* a deleteFeed that also forgets what the feed had seen
deleteFeedForgetting(data, id) ==
  [data EXCEPT !.feeds = RemoveAt(@, FeedIndex(data, id)),
               !.seenItems = [h \in {x \in DOMAIN @ : @[x].feed_id # id} |-> @[h]]]

deleteFeed(data, id) ==
  [data EXCEPT !.feeds = RemoveAt(@, FeedIndex(data, id))]

(***************************************************************************)
(* routes/feeds.js: feedSchema.  A field of a request body is << >>        *)
(* (undefined) or <<value>>; the bodies of the model carry url and regex   *)
(* and leave minSize, maxSize and category out.                            *)
(***************************************************************************)
\* a schema that takes any pattern of the right length
feedSchemaUnrefined(body, partial) ==
  LET urlIssues == IF body.url = << >>
                   THEN (IF partial THEN << >> ELSE <<"Required">>)
                   ELSE IF IsUrl(body.url[1]) THEN << >>
                   ELSE <<"Invalid RSS feed URL">>
      tooLong == body.regex # << >> /\ PatternLength(body.regex[1]) > 200
  IN urlIssues \o (IF tooLong THEN <<"Regex pattern too long">> ELSE << >>)

\* the issues parse() throws as a ZodError, in field order; partial is
\* feedSchema.partial(), which makes url optional
feedSchema(body, partial) ==
  LET urlIssues == IF body.url = << >>
                   THEN (IF partial THEN << >> ELSE <<"Required">>)
                   ELSE IF IsUrl(body.url[1]) THEN << >>
                   ELSE <<"Invalid RSS feed URL">>
      tooLong == body.regex # << >> /\ PatternLength(body.regex[1]) > 200
      invalid == /\ body.regex # << >>
                 /\ body.regex[1] # NoString
                 /\ ~Compiles(body.regex[1])
  IN urlIssues \o (IF tooLong THEN <<"Regex pattern too long">> ELSE << >>)
               \o (IF invalid THEN <<"Invalid regular expression">> ELSE << >>)

\* request bodies of POST / and PUT /:id
Bodies ==
  [url : {<<"http://feeds/a">>},
   regex : {<< >>, <<"">>, <<"(">>, <<Long200>>, <<Long201>>}]
  \cup [url : {<< >>, <<"not a url">>}, regex : {<< >>, <<Long200>>}]

\* inputs of the feed routes
FeedUrls == {"http://feeds/a"}
RuleInputs ==
  {[regex |-> NoString, minSize |-> 0, maxSize |-> 0, category |-> ""],
   [regex |-> "Alpha", minSize |-> 0, maxSize |-> 0, category |-> "tv"]}
UpdateInputs ==
  {[url |-> "http://feeds/b", rules |-> << >>],
   [url |-> NoString,
    rules |-> << [regex |-> <<"Alpha">>, minSize |-> << >>, maxSize |-> << >>,
                  category |-> << >>] >>]}

(***************************************************************************)
(* The ownership ledger (torrent-metadata.js).                             *)
(***************************************************************************)
SystemUser == 0          \* owner id of feed-added torrents
NoExtra == [feed_id |-> 0, feed_url |-> NoString]

setTorrentMetadata(md, hashString, userId, username, extra, now) ==
  (hashString :> [user_id |-> userId, username |-> username, added_at |-> now,
                  block_auto_remove |-> FALSE, extra |-> extra]) @@ md

deleteTorrentMetadata(md, hashString) ==
  [h \in (DOMAIN md) \ {hashString} |-> md[h]]

\* a feed-added torrent recorded under an end user
recordFeedTorrentAsUser(md, hashString, feedId, feedUrl, now) ==
  setTorrentMetadata(md, hashString, 1, "user",
                     [feed_id |-> feedId, feed_url |-> feedUrl], now)

\* pollFeed: the record of a torrent the feed added, under the system identity
recordFeedTorrent(md, hashString, feedId, feedUrl, now) ==
  setTorrentMetadata(md, hashString, SystemUser, "rss-auto",
                     [feed_id |-> feedId, feed_url |-> feedUrl], now)

(***************************************************************************)
(* The engine's add-by-url: a torrent it already has is reported back as   *)
(* the duplicate it is, a new one gets the next session-local id.          *)
(***************************************************************************)
EngineHas(ts, hashString) == \E i \in DOMAIN ts : ts[i].hashString = hashString

EngineAdd(ts, id, url) ==
  LET t == TorrentOfUrl(url)
  IN IF EngineHas(ts, t.hashString) THEN ts
     ELSE Append(ts, [id |-> id, hashString |-> t.hashString, name |-> t.name,
                      percentDone |-> 0])

EngineNextId(ts, id, url) ==
  IF EngineHas(ts, TorrentOfUrl(url).hashString) THEN id ELSE id + 1

(***************************************************************************)
(* pollFeed.  A slot holds the locals of one invocation: data is the copy  *)
(* of the store loaded at its start, feed is data.feeds[feedIdx].  queue   *)
(* holds the feeds pollAllFeeds still has to poll after this one.          *)
(***************************************************************************)
IdlePoll ==
  [pc |-> "idle", queue |-> << >>, feedId |-> 0, feedIdx |-> 0,
   data |-> EmptyStore, items |-> << >>, existingTorrents |-> << >>, idx |-> 1,
   skippedAlreadySeen |-> 0, skippedNoMatch |-> 0, skippedAlreadyExists |-> 0,
   addedNew |-> 0, failedToAdd |-> 0, torrentUrl |-> NoString, marked |-> {}]

NoResult ==
  [feedId |-> 0, items |-> << >>, requests |-> 0, alreadySeen |-> 0,
   matchedBefore |-> 0, matchedAfter |-> 0, marked |-> {}, stamp |-> NullTime,
   repeat |-> FALSE]

\* pollFeed up to its first await: load, find the feed, call parseFeed
BeginPoll(feedId, queue, file) ==
  LET data == load(file)
  IN [IdlePoll EXCEPT !.pc = "fetch", !.queue = queue,
                      !.feedId = feedId, !.feedIdx = FeedIndex(data, feedId),
                      !.data = data]

\* pollAllFeeds: the next feed of the batch; a feed that is gone makes pollFeed
\* throw 'Feed not found', which is recorded, and the loop goes on
RECURSIVE NextPoll(_, _)
NextPoll(queue, file) ==
  IF queue = << >> THEN IdlePoll
  ELSE IF FeedIndex(load(file), Head(queue)) = 0
       THEN NextPoll(Tail(queue), file)
       ELSE BeginPoll(Head(queue), Tail(queue), file)

\* what a call has given its caller: ids are the feeds it was to poll, results
\* the entries of pollAllFeeds' results object (or the one outcome of a pollFeed),
\* threw whether the call itself rejected
NoAnswer ==
  [batch |-> FALSE, ids |-> << >>, results |-> << >>, ended |-> FALSE, threw |-> FALSE]

\* the feeds at the head of the queue that are gone: pollFeed throws 'Feed not
\* found' for each, which pollAllFeeds records
RECURSIVE NotFound(_, _)
NotFound(queue, file) ==
  IF queue = << >> \/ FeedIndex(load(file), Head(queue)) # 0 THEN << >>
  ELSE <<[feedId |-> Head(queue), error |-> TRUE]>> \o NotFound(Tail(queue), file)

\* the answer once the pollFeed of feedId has returned (error = FALSE) or thrown,
\* with next the poll that follows
Answer(a, feedId, error, queue, file, next) ==
  [a EXCEPT !.results = Append(@, [feedId |-> feedId, error |-> error])
                          \o NotFound(queue, file),
            !.ended = next.pc = "idle",
            !.threw = ~a.batch /\ error]

\* a loop that does not record what it has looked at
MarkSeenSkipped(r, hash, now) == r

\* a loop that notes what it has looked at without putting it into the ledger it
\* checks the next items against
MarkSeenAside(r, hash, now) == [r EXCEPT !.marked = @ \cup {hash}]

\* mark the fingerprint seen in the loaded copy
MarkSeen(r, hash, now) ==
  [r EXCEPT !.data.seenItems = (hash :> [feed_id |-> r.feedId, seen_at |-> now]) @@ @,
            !.marked = @ \cup {hash}]

\* a loop in which a feed skips only what it has seen itself
RECURSIVE RunItemsPerFeed(_, _)
RunItemsPerFeed(r, now) ==
  IF r.idx > Len(r.items) THEN [r EXCEPT !.pc = "save"]
  ELSE
    LET item == r.items[r.idx]
        hash == getItemHash(item)
    IN IF hash \in DOMAIN r.data.seenItems /\ r.data.seenItems[hash].feed_id = r.feedId
       THEN RunItemsPerFeed([r EXCEPT !.idx = @ + 1, !.skippedAlreadySeen = @ + 1], now)
       ELSE
         LET r2 == MarkSeen(r, hash, now)
             matchResult == matchesRules(item, r2.data.feeds[r2.feedIdx].rules)
         IN IF ~matchResult.matches
            THEN RunItemsPerFeed([r2 EXCEPT !.idx = @ + 1, !.skippedNoMatch = @ + 1], now)
            ELSE IF \E i \in DOMAIN r2.existingTorrents :
                      r2.existingTorrents[i].name = item.title
            THEN RunItemsPerFeed([r2 EXCEPT !.idx = @ + 1, !.skippedAlreadyExists = @ + 1], now)
            ELSE [r2 EXCEPT !.pc = "adding", !.torrentUrl = matchResult.torrentUrl]

\* the for loop over items, from r.idx up to the next await (the add request of
\* r.items[r.idx], pc = "adding") or to the end of the document (pc = "save")
RECURSIVE RunItems(_, _)
RunItems(r, now) ==
  IF r.idx > Len(r.items) THEN [r EXCEPT !.pc = "save"]
  ELSE
    LET item == r.items[r.idx]
        hash == getItemHash(item)
    IN IF hash \in DOMAIN r.data.seenItems
       THEN RunItems([r EXCEPT !.idx = @ + 1, !.skippedAlreadySeen = @ + 1], now)
       ELSE
         LET r2 == MarkSeen(r, hash, now)
             matchResult == matchesRules(item, r2.data.feeds[r2.feedIdx].rules)
         IN IF ~matchResult.matches
            THEN RunItems([r2 EXCEPT !.idx = @ + 1, !.skippedNoMatch = @ + 1], now)
            ELSE IF \E i \in DOMAIN r2.existingTorrents :
                      r2.existingTorrents[i].name = item.title
            THEN RunItems([r2 EXCEPT !.idx = @ + 1, !.skippedAlreadyExists = @ + 1], now)
            ELSE [r2 EXCEPT !.pc = "adding", !.torrentUrl = matchResult.torrentUrl]

\* a save that leaves the seen-ledger of the file as it was
StoreWriteFeedsOnly(r, file, now) ==
  IF r.pc = "save"
  THEN save([r.data EXCEPT !.feeds[r.feedIdx].last_poll = now,
                           !.seenItems = load(file).seenItems])
  ELSE file

\* a save after every item that was added, not only after the loop
StoreWriteEachItem(r, file, now) ==
  IF r.pc = "save"
  THEN save([r.data EXCEPT !.feeds[r.feedIdx].last_poll = now])
  ELSE save(r.data)

\* what the block that ends in r leaves in the file: the one save of pollFeed,
\* after the loop, with last_poll set
StoreWrite(r, file, now) ==
  IF r.pc = "save"
  THEN save([r.data EXCEPT !.feeds[r.feedIdx].last_poll = now])
  ELSE file

ResultOf(r, now, prev) ==
  [feedId |-> r.feedId, items |-> r.items,
   requests |-> r.addedNew + r.failedToAdd,
   alreadySeen |-> r.skippedAlreadySeen,
   matchedBefore |-> r.data.feeds[r.feedIdx].matched_count - r.addedNew,
   matchedAfter |-> r.data.feeds[r.feedIdx].matched_count,
   marked |-> r.marked, stamp |-> now,
   repeat |-> prev.feedId = r.feedId /\ prev.items = r.items]

\* the synchronous block that follows an await inside the loop
Advance(p, r0) ==
  LET r == RunItems(r0, clock)
  IN /\ feedsFile' = StoreWrite(r, feedsFile, clock + 1)
     /\ IF r.pc = "adding"
        THEN /\ polls' = [polls EXCEPT ![p] = r]
             /\ addRequests' = [addRequests EXCEPT ![getItemHash(r.items[r.idx])] = @ + 1]
             /\ client' = TRUE
             /\ UNCHANGED <<clock, lastResult, effects, answer>>
        ELSE /\ polls' = [polls EXCEPT ![p] = NextPoll(r.queue, feedsFile')]
             /\ answer' = [answer EXCEPT ![p] =
                             Answer(@, r.feedId, FALSE, r.queue, feedsFile',
                                    NextPoll(r.queue, feedsFile'))]
             /\ clock' = clock + 1
             /\ lastResult' = ResultOf(r, clock + 1, lastResult)
             /\ effects' = [seen |-> effects.seen \cup r.marked,
                            count |-> [effects.count EXCEPT ![r.feedId] = @ + r.addedNew],
                            stamp |-> [effects.stamp EXCEPT ![r.feedId] = clock + 1]]
             /\ UNCHANGED <<addRequests, client>>

\* a failure that ends the whole batch
AbortBatch(p) ==
  /\ polls' = [polls EXCEPT ![p] = IdlePoll]
  /\ answer' = [answer EXCEPT ![p] =
                  [@ EXCEPT !.results = Append(@, [feedId |-> polls[p].feedId,
                                                   error |-> TRUE]),
                            !.ended = TRUE, !.threw = TRUE]]
  /\ lastResult' = NoResult
  /\ UNCHANGED <<feedsFile, torrents, nextTorrentId, metadata, clock, runs, crashes,
                 addRequests, effects, stateFiles, diskVars, routeVars, edgeVars, timeVars, client>>

\* pollFeed throws (fetch or engine list failed): nothing is saved
Abort(p) ==
  /\ polls' = [polls EXCEPT ![p] = NextPoll(polls[p].queue, feedsFile)]
  /\ answer' = [answer EXCEPT ![p] =
                  Answer(@, polls[p].feedId, TRUE, polls[p].queue, feedsFile,
                         NextPoll(polls[p].queue, feedsFile))]
  /\ lastResult' = NoResult
  /\ UNCHANGED <<feedsFile, torrents, nextTorrentId, metadata, clock, runs, crashes,
                 addRequests, effects, stateFiles, diskVars, routeVars, edgeVars, timeVars, client>>

(***************************************************************************)
(* The disk monitor.  A slot holds the locals of one                       *)
(* autoRemoveOldestTorrents invocation; a finished one keeps what it       *)
(* returned until the slot is used again.                                  *)
(***************************************************************************)
MaxPasses == 1     \* eviction passes in flight at once
MaxPassRuns == 2   \* eviction passes started over one behaviour
MaxTorrents == 3   \* torrents added to the engine over one behaviour

Threshold == 10    \* DISK_THRESHOLD: percent free below which the monitor evicts
NoTimer == 0       \* restartTimeout = null

PassSlots == 1..MaxPasses

\* what getDiskUsage can report as freePercent
FreeLevels == {Threshold - 1, Threshold, Threshold + 1}

IdlePass ==
  [pc |-> "idle", first |-> 0, candidates |-> << >>, idx |-> 1, rmHash |-> NoString,
   removed |-> << >>, message |-> NoString,
   measures |-> << >>,   \* history: freePercent measured after each removal
   issued |-> 0]         \* history: removeTorrent calls made

MaxDeletes == 1
MaxToggles == 1

DeleteSlots == 1..1

\* the locals of one DELETE /:id request and of the removeTorrent it calls; a request
\* that has been answered keeps its answer until the slot is used again
IdleDelete ==
  [pc |-> "idle", userId |-> 0, isAdmin |-> FALSE, id |-> 0,
   torrentHash |-> NoString,   \* the route's own lookup
   rmHash |-> NoString,        \* removeTorrent's snapshot
   status |-> 0,               \* the response: 200, 403, 500; 0 while there is none
   snapshot |-> "none",        \* history: the snapshot query: "ok", "missing", "failed"
   rpc |-> "none",             \* history: the native remove call: "ok", "reject"
   requery |-> "none",         \* history: the re-query: "resolves", "gone", "failed"
   fallback |-> FALSE,         \* history: the manual path was taken
   released |-> FALSE]         \* history: the engine let go of the torrent

\* the sessions that act on torrents: the uploader, another user, an administrator
Actors ==
  {[userId |-> 1, isAdmin |-> FALSE], [userId |-> 2, isAdmin |-> FALSE],
   [userId |-> 3, isAdmin |-> TRUE]}

isOwner(md, hashString, userId) ==
  hashString \in DOMAIN md /\ md[hashString].user_id = userId

updateTorrentMetadata(md, hashString, blocked) ==
  IF hashString \in DOMAIN md
  THEN [md EXCEPT ![hashString].block_auto_remove = blocked]
  ELSE md

\* the torrents of the model, in the order the engine gets them
AllHashes == <<"hA", "hB", "hC", "hD", "hE", "hF">>

Users == {1}

(***************************************************************************)
(* getAutoRemovalCandidates.                                               *)
(***************************************************************************)
\* Array.prototype.sort with (a, b) => a.added_at - b.added_at: stable, ascending
RECURSIVE InsertByAddedAt(_, _)
InsertByAddedAt(sorted, x) ==
  IF sorted = << >> THEN <<x>>
  ELSE IF x.added_at - sorted[Len(sorted)].added_at >= 0 THEN Append(sorted, x)
  ELSE Append(InsertByAddedAt(SubSeq(sorted, 1, Len(sorted) - 1), x),
              sorted[Len(sorted)])

RECURSIVE SortByAddedAt(_)
SortByAddedAt(s) ==
  IF s = << >> THEN << >>
  ELSE InsertByAddedAt(SortByAddedAt(SubSeq(s, 1, Len(s) - 1)), s[Len(s)])

Blocked(md, hashString) ==
  hashString \in DOMAIN md /\ md[hashString].block_auto_remove

\* a filter that looks at completion only
EligibleIgnoringBlock(t, md) == t.percentDone = 1

Eligible(t, md) == t.percentDone = 1 /\ ~Blocked(md, t.hashString)

\* a candidate list in which a missing added_at counts as the epoch
getAutoRemovalCandidatesEpoch(ts, md, now) ==
  LET kept == SelectSeq(ts, LAMBDA t : Eligible(t, md))
      mapped == [i \in DOMAIN kept |->
                   [id |-> kept[i].id, hashString |-> kept[i].hashString,
                    name |-> kept[i].name, percentDone |-> kept[i].percentDone,
                    added_at |-> IF kept[i].hashString \in DOMAIN md
                                 THEN md[kept[i].hashString].added_at ELSE 0]]
  IN SortByAddedAt(mapped)

getAutoRemovalCandidates(ts, md, now) ==
  LET kept == SelectSeq(ts, LAMBDA t : Eligible(t, md))
      mapped == [i \in DOMAIN kept |->
                   [id |-> kept[i].id, hashString |-> kept[i].hashString,
                    name |-> kept[i].name, percentDone |-> kept[i].percentDone,
                    added_at |-> IF kept[i].hashString \in DOMAIN md
                                 THEN md[kept[i].hashString].added_at ELSE now]]
  IN SortByAddedAt(mapped)

\* the two threshold tests of autoRemoveOldestTorrents, with their slips
SpaceSufficientStrict(freePercent) == freePercent > Threshold

SpaceSufficient(freePercent) == freePercent >= Threshold

SpaceRecoveredStrict(freePercent) == freePercent > Threshold

SpaceRecovered(freePercent) == freePercent >= Threshold

(***************************************************************************)
(* The engine side of a removal and of a restart.                          *)
(***************************************************************************)
\* index of the torrent with this session-local id, 0 when there is none
IndexOfId(ts, id) ==
  LET hits == {i \in DOMAIN ts : ts[i].id = id}
  IN IF hits = {} THEN 0 ELSE CHOOSE i \in hits : TRUE

\* transmission-daemon comes up with the torrents whose state files it finds and
\* numbers them afresh
EngineReload(ts, files) ==
  LET kept == SelectSeq(ts, LAMBDA t : t.hashString \in files)
  IN [i \in DOMAIN kept |-> [kept[i] EXCEPT !.id = i]]

(***************************************************************************)
(* scheduleTransmissionRestart.                                            *)
(***************************************************************************)
\* a scheduler that sets a timer for every request
scheduleAlways(handle, pending, next) ==
  [restartTimeout |-> next, timers |-> pending \cup {next}, nextTimer |-> next + 1]

scheduleTransmissionRestart(handle, pending, next) ==
  IF handle # NoTimer
  THEN [restartTimeout |-> handle, timers |-> pending, nextTimer |-> next]
  ELSE [restartTimeout |-> next, timers |-> pending \cup {next}, nextTimer |-> next + 1]


(***************************************************************************)
(* The egress guard of parseFeed.  TLC cannot look inside the text of an   *)
(* address, so an address is what the patterns of PRIVATE_IP_RANGES can    *)
(* tell apart: an IPv4 address a.b.x.x by its first two octets, an IPv6    *)
(* address a::b by its first and last group of 16 bits (::1 is a = 0,      *)
(* b = 1).                                                                 *)
(***************************************************************************)
Protocols == {"http:", "https:", "ftp:", "file:"}

AllowedProtocols == {"http:", "https:"}

NoAddress == [family |-> 0, a |-> 0, b |-> 0]

\* 0x2001, 0xfc00, 0xfc01, 0xfd00, 0xfd12, 0xfdff, 0xfe80, 0xfe81, 0xfebf, 0xfec0
Addresses ==
  [family : {4}, a : {0, 8, 10, 127, 169, 172, 192, 224, 240},
   b : {0, 15, 16, 31, 32, 168, 254}]
  \cup [family : {6},
        a : {0, 8193, 64512, 64513, 64768, 64786, 65023, 65152, 65153, 65215, 65216},
        b : {1, 2}]

\* PRIVATE_IP_RANGES.some(regex => regex.test(ip)), pattern by pattern; an IPv6
\* group is written without leading zeros, so /^fe80:/i matches the first group
\* 0xfe80 and no other
isPrivateIP(ip) ==
  \/ ip.family = 4 /\ ip.a = 127                        \* /^127\./
  \/ ip.family = 4 /\ ip.a = 10                         \* /^10\./
  \/ ip.family = 4 /\ ip.a = 172 /\ ip.b \in 16..31     \* /^172\.(1[6-9]|2[0-9]|3[0-1])\./
  \/ ip.family = 4 /\ ip.a = 192 /\ ip.b = 168          \* /^192\.168\./
  \/ ip.family = 4 /\ ip.a = 169 /\ ip.b = 254          \* /^169\.254\./
  \/ ip.family = 4 /\ ip.a = 0                          \* /^0\./
  \/ ip.family = 4 /\ ip.a = 224                        \* /^224\./
  \/ ip.family = 4 /\ ip.a = 240                        \* /^240\./
  \/ ip.family = 6 /\ ip.a = 0 /\ ip.b = 1              \* /^::1$/
  \/ ip.family = 6 /\ ip.a = 65152                      \* /^fe80:/i
  \/ ip.family = 6 /\ ip.a = 64512                      \* /^fc00:/i
  \/ ip.family = 6 /\ ip.a = 64768                      \* /^fd00:/i

IdleEgress ==
  [pc |-> "idle", protocol |-> NoString, address |-> NoAddress, error |-> NoString,
   requested |-> FALSE,
   timer |-> FALSE,      \* the 30 second abort timer is armed
   redirects |-> 0,      \* redirects fetch has followed
   hop |-> NoAddress]    \* where the last redirect took the request

(***************************************************************************)
(* Initial state: initFeeds has written the empty store, nothing is in     *)
(* flight, the engine holds no torrent.                                    *)
(***************************************************************************)
Init ==
  /\ feedsFile = save(EmptyStore)
  /\ polls = [p \in Slots |-> IdlePoll]
  /\ torrents = << >>
  /\ nextTorrentId = 1
  /\ metadata = << >>
  /\ clock = 1
  /\ runs = 0
  /\ crashes = 0
  /\ addRequests = [h \in Fingerprints |-> 0]
  /\ lastResult = NoResult
  /\ effects = [seen |-> {}, count |-> [id \in 1..MaxFeeds |-> 0],
                stamp |-> [id \in 1..MaxFeeds |-> NullTime]]
  /\ stateFiles = {}
  /\ passes = [m \in PassSlots |-> IdlePass]
  /\ passRuns = 0
  /\ restartTimeout = NoTimer
  /\ timers = {}
  /\ executing = << >>
  /\ nextTimer = 1
  /\ restartCmds = 0
  /\ requests = 0
  /\ windows = 0
  /\ client = FALSE
  /\ deletes = [k \in DeleteSlots |-> IdleDelete]
  /\ deleteRuns = 0
  /\ toggled = << >>
  /\ egress = IdleEgress
  /\ lastRequest = << >>
  /\ evaluated = << >>
  /\ created = << >>
  /\ hashed = << >>
  /\ age = 0
  /\ quiet = 0
  /\ answer = [p \in Slots |-> NoAnswer]

(***************************************************************************)
(* Feed routes: POST /, PUT /:id, DELETE /:id.                             *)
(***************************************************************************)
AddFeed(url, rules) ==
  /\ load(feedsFile).nextId <= MaxFeeds
  /\ Len(created) <= MaxFeeds
  /\ feedsFile' = save(addFeed(load(feedsFile), url, rules))
  /\ lastResult' = NoResult
  /\ answer' = [p \in Slots |-> NoAnswer]
  /\ created' = Append(created, load(feedsFile).nextId)
  /\ UNCHANGED <<polls, torrents, nextTorrentId, metadata, clock, runs, crashes,
                 addRequests, effects, stateFiles, diskVars, routeVars, client,
                 egress, lastRequest, evaluated, hashed, timeVars>>

\* an unknown id throws 'Feed not found' before anything is written
UpdateFeed(id, updates) ==
  /\ FeedIndex(load(feedsFile), id) # 0
  /\ feedsFile' = save(updateFeed(load(feedsFile), id, updates))
  /\ lastResult' = NoResult
  /\ answer' = [p \in Slots |-> NoAnswer]
  /\ UNCHANGED <<polls, torrents, nextTorrentId, metadata, clock, runs, crashes,
                 addRequests, effects, stateFiles, diskVars, routeVars, edgeVars, timeVars, client>>

DeleteFeed(id) ==
  /\ FeedIndex(load(feedsFile), id) # 0
  /\ feedsFile' = save(deleteFeed(load(feedsFile), id))
  /\ lastResult' = NoResult
  /\ answer' = [p \in Slots |-> NoAnswer]
  /\ UNCHANGED <<polls, torrents, nextTorrentId, metadata, clock, runs, crashes,
                 addRequests, stateFiles, diskVars, routeVars, edgeVars, timeVars, client>>
  /\ effects' = [effects EXCEPT !.count[id] = 0, !.stamp[id] = NullTime]

(***************************************************************************)
(* POST / and PUT /:id with any body: validation, then the store call.     *)
(***************************************************************************)
RouteUnchanged ==
  /\ answer' = [p \in Slots |-> NoAnswer]
  /\ UNCHANGED <<polls, torrents, nextTorrentId, metadata, clock, runs, crashes,
              addRequests, effects, stateFiles, diskVars, routeVars, client,
              egress, evaluated, hashed, timeVars>>

PostFeed(body) ==
  LET issues == feedSchema(body, FALSE)
      data == load(feedsFile)
      rules == [regex |-> IF body.regex = << >> THEN NoString ELSE body.regex[1],
                minSize |-> 0, maxSize |-> 0, category |-> ""]
  IN /\ data.nextId <= MaxFeeds
     /\ Len(created) <= MaxFeeds
     /\ IF issues # << >>
        THEN /\ lastRequest' = <<[method |-> "POST", id |-> 0, body |-> body,
                                  status |-> 400]>>
             /\ UNCHANGED <<feedsFile, lastResult, created>>
        ELSE /\ feedsFile' = save(addFeed(data, body.url[1], rules))
             /\ lastResult' = NoResult
             /\ created' = Append(created, data.nextId)
             /\ lastRequest' = <<[method |-> "POST", id |-> data.nextId, body |-> body,
                                  status |-> 200]>>
     /\ RouteUnchanged

\* 'Feed not found' goes to the error handler: 500
PutFeed(id, body) ==
  LET issues == feedSchema(body, TRUE)
      data == load(feedsFile)
      updates == [url |-> IF body.url = << >> THEN NoString ELSE body.url[1],
                  rules |-> << [regex |-> body.regex, minSize |-> << >>,
                                maxSize |-> << >>, category |-> << >>] >>]
      status == IF issues # << >> THEN 400
                ELSE IF FeedIndex(data, id) = 0 THEN 500
                ELSE 200
  IN /\ lastRequest' = <<[method |-> "PUT", id |-> id, body |-> body, status |-> status]>>
     /\ IF status = 200
        THEN /\ feedsFile' = save(updateFeed(data, id, updates))
             /\ lastResult' = NoResult
        ELSE UNCHANGED <<feedsFile, lastResult>>
     /\ UNCHANGED created
     /\ RouteUnchanged

(***************************************************************************)
(* Poll triggers: POST /:id/poll, POST /poll, and the timer and cron job   *)
(* of startPolling.                                                        *)
(***************************************************************************)
PollOne(p, feedId) ==
  /\ FreeSlot(p)
  /\ runs < MaxRuns
  /\ FeedIndex(load(feedsFile), feedId) # 0
  /\ polls' = [polls EXCEPT ![p] = BeginPoll(feedId, << >>, feedsFile)]
  /\ answer' = [answer EXCEPT ![p] = [NoAnswer EXCEPT !.ids = <<feedId>>]]
  /\ runs' = runs + 1
  /\ UNCHANGED <<feedsFile, torrents, nextTorrentId, metadata, clock, crashes,
                 addRequests, lastResult, effects, stateFiles, diskVars, routeVars, edgeVars, timeVars, client>>

pollAllFeeds(p) ==
  LET feeds == load(feedsFile).feeds
      ids == [i \in DOMAIN feeds |-> feeds[i].id]
  IN /\ FreeSlot(p)
     /\ ids # << >>
     /\ runs + Len(ids) <= MaxRuns
     /\ polls' = [polls EXCEPT ![p] = NextPoll(ids, feedsFile)]
     /\ answer' = [answer EXCEPT ![p] = [NoAnswer EXCEPT !.batch = TRUE, !.ids = ids]]
     /\ runs' = runs + Len(ids)
     /\ UNCHANGED <<feedsFile, torrents, nextTorrentId, metadata, clock, crashes,
                    addRequests, lastResult, effects, stateFiles, diskVars, routeVars, edgeVars, timeVars, client>>

\* POST /poll
ManualPollAll(p) == pollAllFeeds(p)

\* the startup timer and the cron job of startPolling
ScheduledPollAll(p) == pollAllFeeds(p)

(***************************************************************************)
(* pollFeed, one action per await that comes back.                         *)
(***************************************************************************)
\* parseFeed resolved with the document
PollFetchOk(p, doc) ==
  /\ polls[p].pc = "fetch"
  /\ polls' = [polls EXCEPT ![p] = [@ EXCEPT !.pc = "list", !.items = doc]]
  /\ client' = TRUE
  /\ UNCHANGED <<answer, feedsFile, torrents, nextTorrentId, metadata, clock, runs, crashes,
                 addRequests, lastResult, effects, stateFiles, diskVars, routeVars, edgeVars, timeVars>>

\* a failed fetch that still stamps the feed as polled
PollFetchFailStamped(p) ==
  LET r == polls[p]
  IN /\ r.pc = "fetch"
     /\ feedsFile' = save([r.data EXCEPT !.feeds[r.feedIdx].last_poll = clock])
     /\ polls' = [polls EXCEPT ![p] = NextPoll(r.queue, feedsFile')]
     /\ answer' = [answer EXCEPT ![p] =
                     Answer(@, r.feedId, TRUE, r.queue, feedsFile',
                            NextPoll(r.queue, feedsFile'))]
     /\ lastResult' = NoResult
     /\ UNCHANGED <<torrents, nextTorrentId, metadata, clock, runs, crashes, addRequests,
                    effects, stateFiles, diskVars, routeVars, edgeVars, timeVars, client>>

\* parseFeed rejected
PollFetchFail(p) ==
  /\ polls[p].pc = "fetch"
  /\ Abort(p)

\* getTorrents resolved; the loop runs to its first add request or to the save
PollListOk(p) ==
  /\ polls[p].pc = "list"
  /\ Advance(p, [polls[p] EXCEPT !.pc = "loop", !.existingTorrents = torrents])
  /\ UNCHANGED <<torrents, nextTorrentId, metadata, runs, crashes, stateFiles, diskVars,
                 routeVars, edgeVars, timeVars>>

\* getTorrents rejected
PollListFail(p) ==
  /\ polls[p].pc = "list"
  /\ Abort(p)

\* addTorrentUrl resolved: ownership record, matched_count++, on with the loop
PollAddOk(p) ==
  LET r == polls[p]
      t == TorrentOfUrl(r.torrentUrl)
      feed == r.data.feeds[r.feedIdx]
  IN /\ r.pc = "adding"
     /\ torrents' = EngineAdd(torrents, nextTorrentId, r.torrentUrl)
     /\ nextTorrentId' = EngineNextId(torrents, nextTorrentId, r.torrentUrl)
     /\ metadata' = recordFeedTorrent(metadata, t.hashString, r.feedId, feed.url, clock)
     /\ stateFiles' = stateFiles \cup {t.hashString}
     /\ Advance(p, [r EXCEPT !.pc = "loop", !.idx = @ + 1, !.addedNew = @ + 1,
                             !.data.feeds[r.feedIdx].matched_count = @ + 1])
     /\ UNCHANGED <<runs, crashes, diskVars, routeVars, edgeVars, timeVars>>

\* a failed add that takes the mark back, so that a later poll tries again
PollAddFailForget(p) ==
  LET r == polls[p]
      hash == getItemHash(r.items[r.idx])
      seen == r.data.seenItems
  IN /\ r.pc = "adding"
     /\ Advance(p, [r EXCEPT !.pc = "loop", !.idx = @ + 1, !.failedToAdd = @ + 1,
                             !.data.seenItems = [h \in DOMAIN seen \ {hash} |-> seen[h]],
                             !.marked = @ \ {hash}])
     /\ UNCHANGED <<torrents, nextTorrentId, metadata, runs, crashes, stateFiles, diskVars,
                    routeVars, edgeVars, timeVars>>

\* addTorrentUrl rejected: counted, the item stays marked seen
PollAddFail(p) ==
  LET r == polls[p]
  IN /\ r.pc = "adding"
     /\ Advance(p, [r EXCEPT !.pc = "loop", !.idx = @ + 1, !.failedToAdd = @ + 1])
     /\ UNCHANGED <<torrents, nextTorrentId, metadata, runs, crashes, stateFiles, diskVars,
                    routeVars, edgeVars, timeVars>>

(***************************************************************************)
(* The process dies and is started again: what was in memory is gone, the  *)
(* files stay.  An add request that was on its way may or may not have     *)
(* reached the engine.                                                     *)
(***************************************************************************)
RECURSIVE EngineAddAll(_, _, _)
EngineAddAll(ts, id, urls) ==
  IF urls = {} THEN [torrents |-> ts, nextId |-> id]
  ELSE LET u == CHOOSE x \in urls : TRUE
       IN EngineAddAll(EngineAdd(ts, id, u), EngineNextId(ts, id, u), urls \ {u})

Crash ==
  /\ crashes < MaxCrashes
  /\ \E reached \in SUBSET {polls[p].torrentUrl : p \in {q \in Slots : polls[q].pc = "adding"}} :
       LET e == EngineAddAll(torrents, nextTorrentId, reached)
       IN /\ torrents' = e.torrents
          /\ nextTorrentId' = e.nextId
          /\ stateFiles' = stateFiles \cup {TorrentOfUrl(u).hashString : u \in reached}
  /\ polls' = [p \in Slots |-> IdlePoll]
  /\ crashes' = crashes + 1
  /\ lastResult' = NoResult
  /\ passes' = [m \in PassSlots |-> IdlePass]
  /\ restartTimeout' = NoTimer
  /\ timers' = {}
  /\ executing' = << >>
  /\ client' = FALSE
  /\ deletes' = [k \in DeleteSlots |-> IdleDelete]
  /\ answer' = [p \in Slots |-> NoAnswer]
  /\ UNCHANGED <<feedsFile, metadata, clock, runs, addRequests, effects, passRuns,
                 nextTimer, restartCmds, requests, windows, deleteRuns, toggled,
                 edgeVars, timeVars>>

(***************************************************************************)
(* The engine and the torrent routes, as far as the disk monitor sees      *)
(* them: torrents arrive with or without an ownership record, complete,    *)
(* and get or lose the auto-removal block.                                 *)
(***************************************************************************)
FreshHash ==
  /\ clock <= MaxTorrents
  /\ AllHashes[clock] \notin stateFiles \cup DOMAIN metadata
  /\ ~EngineHas(torrents, AllHashes[clock])

NewTorrent(id, hashString) ==
  [id |-> id, hashString |-> hashString, name |-> hashString, percentDone |-> 0]

\* POST /upload: addTorrent, then the ownership record of the uploader
Upload(userId) ==
  /\ FreshHash
  /\ torrents' = Append(torrents, NewTorrent(nextTorrentId, AllHashes[clock]))
  /\ nextTorrentId' = nextTorrentId + 1
  /\ stateFiles' = stateFiles \cup {AllHashes[clock]}
  /\ metadata' = setTorrentMetadata(metadata, AllHashes[clock], userId, "user", NoExtra,
                                    clock)
  /\ clock' = clock + 1
  /\ client' = TRUE
  /\ UNCHANGED <<feedVars, routeVars, edgeVars, timeVars, diskVars>>

\* a torrent given to the engine behind the application's back has no record
ExternalAdd ==
  /\ FreshHash
  /\ torrents' = Append(torrents, NewTorrent(nextTorrentId, AllHashes[clock]))
  /\ nextTorrentId' = nextTorrentId + 1
  /\ stateFiles' = stateFiles \cup {AllHashes[clock]}
  /\ clock' = clock + 1
  /\ UNCHANGED <<feedVars, routeVars, edgeVars, timeVars, metadata, diskVars, client>>

Complete(i) ==
  /\ i \in DOMAIN torrents
  /\ torrents[i].percentDone = 0
  /\ torrents' = [torrents EXCEPT ![i].percentDone = 1]
  /\ UNCHANGED <<feedVars, routeVars, edgeVars, timeVars, nextTorrentId, metadata, clock, stateFiles,
                 diskVars, client>>

\* PATCH /:id/block-auto-remove, by the owner or an administrator, on a torrent the
\* engine resolves and that has a record
SetBlockAutoRemove(hashString, blocked) ==
  /\ EngineHas(torrents, hashString)
  /\ hashString \in DOMAIN metadata
  /\ metadata[hashString].block_auto_remove # blocked
  /\ metadata' = [metadata EXCEPT ![hashString].block_auto_remove = blocked]
  /\ client' = TRUE
  /\ UNCHANGED <<feedVars, routeVars, edgeVars, timeVars, torrents, nextTorrentId, clock, stateFiles,
                 diskVars>>

(***************************************************************************)
(* autoRemoveOldestTorrents, one action per stretch between two awaits.    *)
(* A slot keeps the locals of the pass; a finished pass stays in the slot  *)
(* with what it returned until the next pass starts.                       *)
(***************************************************************************)
FreePass(m) ==
  /\ passes[m].pc \in {"idle", "done"}
  /\ \A n \in PassSlots : n < m => passes[n].pc \notin {"idle", "done"}

\* the timer or the cron tick calls autoRemoveOldestTorrents: getServerStats is awaited
PassStart(m) ==
  /\ FreePass(m)
  /\ passRuns < MaxPassRuns
  /\ passRuns' = passRuns + 1
  /\ passes' = [passes EXCEPT ![m] = [IdlePass EXCEPT !.pc = "session"]]
  /\ client' = TRUE
  /\ UNCHANGED <<feedVars, routeVars, edgeVars, timeVars, torrents, nextTorrentId, metadata, clock, stateFiles,
                 restartTimeout, timers, executing, nextTimer, restartCmds, requests,
                 windows>>

PassUnchanged ==
  UNCHANGED <<feedVars, routeVars, edgeVars, timeVars, torrents, nextTorrentId, metadata, clock, stateFiles,
              passRuns,
              restartTimeout, timers, executing, nextTimer, restartCmds, requests,
              windows>>

\* getServerStats rejects: the pass throws
PassSessionFail(m) ==
  /\ passes[m].pc = "session"
  /\ passes' = [passes EXCEPT ![m].pc = "done", ![m].message = "error"]
  /\ UNCHANGED client
  /\ PassUnchanged

\* getServerStats and getDiskUsage answer (getDiskUsage answers 10 when statfs fails)
PassMeasureFirst(m, freePercent) ==
  /\ passes[m].pc = "session"
  /\ passes' = [passes EXCEPT ![m] =
       IF SpaceSufficient(freePercent)
       THEN [@ EXCEPT !.pc = "done", !.first = freePercent,
                      !.message = "Disk space above threshold"]
       ELSE [@ EXCEPT !.pc = "candidates", !.first = freePercent]]
  /\ client' = (client \/ ~SpaceSufficient(freePercent))
  /\ PassUnchanged

\* getTorrents rejects inside getAutoRemovalCandidates: the pass throws
PassCandidatesFail(m) ==
  /\ passes[m].pc = "candidates"
  /\ passes' = [passes EXCEPT ![m].pc = "done", ![m].message = "error"]
  /\ UNCHANGED client
  /\ PassUnchanged

PassCandidates(m) ==
  LET candidates == getAutoRemovalCandidates(torrents, metadata, clock)
  IN /\ passes[m].pc = "candidates"
     /\ passes' = [passes EXCEPT ![m] =
          IF Len(candidates) = 0
          THEN [@ EXCEPT !.pc = "done", !.message = "No eligible torrents to remove"]
          ELSE [@ EXCEPT !.pc = "removing", !.candidates = candidates, !.idx = 1]]
     /\ client' = (client \/ Len(candidates) # 0)
     /\ PassUnchanged

\* removeTorrent has returned: the record goes, the torrent is pushed on removed and
\* getDiskUsage is awaited
Removed(r) ==
  [r EXCEPT !.pc = "usage", !.rmHash = NoString,
            !.removed = Append(@, [id |-> r.candidates[r.idx].id,
                                   name |-> r.candidates[r.idx].name])]

\* removeTorrent, steps 1 and 2: the details by session id, the remove call and its
\* verification.  engineRemoves says whether the engine lets go of the torrent;
\* reach says whether the engine answers at all: when it does not, the details are
\* not had, the remove call is rejected, and both failures are caught.
PassRemoveNative(m, engineRemoves, reach) ==
  LET r == passes[m]
      torrent == r.candidates[r.idx]
      i == IndexOfId(torrents, torrent.id)
      torrentHash == IF i = 0 \/ ~reach THEN NoString ELSE torrents[i].hashString
      normalRemovalSucceeded == reach /\ (i = 0 \/ engineRemoves)
      called == [r EXCEPT !.issued = @ + 1]
  IN /\ r.pc = "removing"
     /\ IF i # 0 /\ reach /\ engineRemoves
        THEN /\ torrents' = RemoveAt(torrents, i)
             /\ stateFiles' = stateFiles \ {torrentHash}
        ELSE UNCHANGED <<torrents, stateFiles>>
     /\ IF ~normalRemovalSucceeded /\ torrentHash # NoString
        THEN /\ passes' = [passes EXCEPT ![m] =
                             [called EXCEPT !.pc = "fallback", !.rmHash = torrentHash]]
             /\ UNCHANGED metadata
        ELSE /\ passes' = [passes EXCEPT ![m] = Removed(called)]
             /\ metadata' = deleteTorrentMetadata(metadata, torrent.hashString)
     /\ client' = TRUE
     /\ UNCHANGED <<feedVars, routeVars, edgeVars, timeVars, nextTorrentId, clock, passRuns, restartTimeout, timers,
                    executing, nextTimer, restartCmds, requests, windows>>

\* a fallback that leaves the client handle as it is
PassFallbackKeepingHandle(m) ==
  LET r == passes[m]
      s == scheduleTransmissionRestart(restartTimeout, timers, nextTimer)
  IN /\ r.pc = "fallback"
     /\ stateFiles' = stateFiles \ {r.rmHash}
     /\ restartTimeout' = s.restartTimeout
     /\ timers' = s.timers
     /\ nextTimer' = s.nextTimer
     /\ requests' = requests + 1
     /\ windows' = IF timers = {} /\ DOMAIN executing = {} THEN windows + 1 ELSE windows
     /\ passes' = [passes EXCEPT ![m] = Removed(r)]
     /\ metadata' = deleteTorrentMetadata(metadata, r.candidates[r.idx].hashString)
     /\ quiet' = 0
     /\ age' = IF restartTimeout = NoTimer THEN 0 ELSE age
     /\ client' = client
     /\ UNCHANGED <<feedVars, routeVars, edgeVars, torrents, nextTorrentId, clock, passRuns, executing,
                    restartCmds>>

\* removeTorrent, step 3: the state files and the data are deleted by hand and the
\* restart is asked for; the engine keeps the torrent in memory until it restarts
PassFallback(m) ==
  LET r == passes[m]
      s == scheduleTransmissionRestart(restartTimeout, timers, nextTimer)
  IN /\ r.pc = "fallback"
     /\ stateFiles' = stateFiles \ {r.rmHash}
     /\ restartTimeout' = s.restartTimeout
     /\ timers' = s.timers
     /\ nextTimer' = s.nextTimer
     /\ requests' = requests + 1
     /\ windows' = IF timers = {} /\ DOMAIN executing = {} THEN windows + 1 ELSE windows
     /\ passes' = [passes EXCEPT ![m] = Removed(r)]
     /\ metadata' = deleteTorrentMetadata(metadata, r.candidates[r.idx].hashString)
     /\ quiet' = 0
     /\ age' = IF restartTimeout = NoTimer THEN 0 ELSE age
     /\ client' = FALSE
     /\ UNCHANGED <<feedVars, routeVars, edgeVars, torrents, nextTorrentId, clock, passRuns, executing,
                    restartCmds>>

\* getDiskUsage after a removal
PassMeasure(m, freePercent) ==
  LET r == passes[m]
      measured == [r EXCEPT !.measures = Append(@, freePercent)]
      summary == [measured EXCEPT !.pc = "done", !.message = "Removed"]
  IN /\ r.pc = "usage"
     /\ passes' = [passes EXCEPT ![m] =
          IF SpaceRecovered(freePercent) THEN summary
          ELSE IF r.idx = Len(r.candidates) THEN summary
          ELSE [measured EXCEPT !.pc = "removing", !.idx = @ + 1]]
     /\ client' = (client \/ passes'[m].pc = "removing")
     /\ PassUnchanged

(***************************************************************************)
(* The restart that scheduleTransmissionRestart has set up: the timer      *)
(* fires, systemctl restarts the engine, three seconds later the handle is *)
(* cleared.                                                                *)
(***************************************************************************)
RestartUnchanged ==
  UNCHANGED <<feedVars, routeVars, edgeVars, timeVars, client, metadata, clock, stateFiles, passes, passRuns,
              nextTimer,
              requests, windows>>

RestartFire(t) ==
  /\ t \in timers
  /\ timers' = timers \ {t}
  /\ executing' = (t :> "exec") @@ executing
  /\ restartCmds' = restartCmds + 1
  /\ UNCHANGED <<torrents, nextTorrentId, restartTimeout>>
  /\ RestartUnchanged

RestartExecOk(t) ==
  /\ t \in DOMAIN executing
  /\ executing[t] = "exec"
  /\ torrents' = EngineReload(torrents, stateFiles)
  /\ nextTorrentId' = Len(EngineReload(torrents, stateFiles)) + 1
  /\ executing' = [executing EXCEPT ![t] = "sleep"]
  /\ UNCHANGED <<timers, restartCmds, restartTimeout>>
  /\ RestartUnchanged

RestartExecFail(t) ==
  /\ t \in DOMAIN executing
  /\ executing[t] = "exec"
  /\ restartTimeout' = NoTimer
  /\ executing' = [u \in (DOMAIN executing) \ {t} |-> executing[u]]
  /\ UNCHANGED <<torrents, nextTorrentId, timers, restartCmds>>
  /\ RestartUnchanged

RestartSettled(t) ==
  /\ t \in DOMAIN executing
  /\ executing[t] = "sleep"
  /\ restartTimeout' = NoTimer
  /\ executing' = [u \in (DOMAIN executing) \ {t} |-> executing[u]]
  /\ UNCHANGED <<torrents, nextTorrentId, timers, restartCmds>>
  /\ RestartUnchanged

(***************************************************************************)
(* DELETE /:id and the removeTorrent it calls, one action per await that   *)
(* comes back.  Every engine call may fail on its own (reach = FALSE): the *)
(* engine is down, restarting, or the request times out.                   *)
(***************************************************************************)
FreeDelete(k) ==
  /\ deletes[k].pc \in {"idle", "done"}
  /\ \A j \in DeleteSlots : j < k => deletes[j].pc \notin {"idle", "done"}

DeleteUnchanged ==
  UNCHANGED <<feedVars, passes, passRuns, nextTorrentId, clock, executing, restartCmds,
              toggled, edgeVars>>

\* the permission check of both routes, and one that lets everybody through
PermittedAnyone(isAdmin, owner) == TRUE

Permitted(isAdmin, owner) == isAdmin \/ owner

\* the hashString getTorrentDetails(id) resolves with, NoString when it rejects
Details(id, reach) ==
  IF reach /\ IndexOfId(torrents, id) # 0
  THEN torrents[IndexOfId(torrents, id)].hashString
  ELSE NoString

\* the route's own lookup has come back: permission check, then removeTorrent starts
DeleteRequest(k, actor, id, reach) ==
  LET torrentHash == Details(id, reach)
      owner == IF torrentHash # NoString THEN isOwner(metadata, torrentHash, actor.userId)
               ELSE FALSE
      request == [IdleDelete EXCEPT !.userId = actor.userId, !.isAdmin = actor.isAdmin,
                                    !.id = id, !.torrentHash = torrentHash]
  IN /\ FreeDelete(k)
     /\ deleteRuns < MaxDeletes
     /\ deleteRuns' = deleteRuns + 1
     /\ deletes' = [deletes EXCEPT ![k] =
          IF ~Permitted(actor.isAdmin, owner)
          THEN [request EXCEPT !.pc = "done", !.status = 403]
          ELSE [request EXCEPT !.pc = "snapshot"]]
     /\ client' = TRUE
     /\ UNCHANGED <<torrents, metadata, stateFiles, restartTimeout, timers, nextTimer,
                    requests, windows>>
     /\ DeleteUnchanged
     /\ UNCHANGED timeVars

\* removeTorrent step 1: the snapshot query has come back, the remove call is sent
RemoveSnapshot(k, reach) ==
  /\ deletes[k].pc = "snapshot"
  /\ deletes' = [deletes EXCEPT ![k].pc = "rpc",
                                ![k].rmHash = Details(deletes[k].id, reach),
                                ![k].snapshot =
                                  IF Details(deletes[k].id, reach) # NoString THEN "ok"
                                  ELSE IF reach THEN "missing" ELSE "failed"]
  /\ client' = TRUE
  /\ UNCHANGED <<torrents, metadata, stateFiles, restartTimeout, timers, nextTimer,
                 requests, windows, deleteRuns>>
  /\ DeleteUnchanged
  /\ UNCHANGED timeVars

\* removeTorrent has returned { success: true }: the route deletes the record of the
\* hash it looked up and answers
Returned(r) ==
  [r EXCEPT !.pc = "done", !.status = 200]

RecordAfter(r) ==
  IF r.torrentHash # NoString THEN deleteTorrentMetadata(metadata, r.torrentHash)
  ELSE metadata

\* removeTorrent step 2: the native remove call has come back.  "removed": the
\* engine let go of the torrent; "noop": it answered and kept it; "reject": the call
\* failed, which skips the re-query.
RemoveRpc(k, outcome) ==
  LET r == deletes[k]
      i == IndexOfId(torrents, r.id)
      called == [r EXCEPT !.rpc = IF outcome = "reject" THEN "reject" ELSE "ok",
                          !.released = i # 0 /\ outcome = "removed"]
  IN /\ r.pc = "rpc"
     /\ IF i # 0 /\ outcome = "removed"
        THEN /\ torrents' = RemoveAt(torrents, i)
             /\ stateFiles' = stateFiles \ {torrents[i].hashString}
        ELSE UNCHANGED <<torrents, stateFiles>>
     /\ IF outcome # "reject"
        THEN /\ deletes' = [deletes EXCEPT ![k] = [called EXCEPT !.pc = "requery"]]
             /\ UNCHANGED metadata
        ELSE IF r.rmHash # NoString
        THEN /\ deletes' = [deletes EXCEPT ![k] = [called EXCEPT !.pc = "fallback"]]
             /\ UNCHANGED metadata
        ELSE /\ deletes' = [deletes EXCEPT ![k] = Returned(called)]
             /\ metadata' = RecordAfter(r)
     /\ client' = TRUE
     /\ UNCHANGED <<restartTimeout, timers, nextTimer, requests, windows, deleteRuns>>
     /\ DeleteUnchanged
     /\ UNCHANGED timeVars

\* the re-query after the 500 ms has come back: a torrent that still resolves means
\* the removal failed, anything else counts as removed
RemoveRequery(k, reach) ==
  LET r == deletes[k]
      resolves == Details(r.id, reach) # NoString
      asked == [r EXCEPT !.requery = IF resolves THEN "resolves"
                                     ELSE IF reach THEN "gone" ELSE "failed"]
  IN /\ r.pc = "requery"
     /\ IF resolves /\ r.rmHash # NoString
        THEN /\ deletes' = [deletes EXCEPT ![k] = [asked EXCEPT !.pc = "fallback"]]
             /\ UNCHANGED metadata
        ELSE /\ deletes' = [deletes EXCEPT ![k] = Returned(asked)]
             /\ metadata' = RecordAfter(r)
     /\ client' = TRUE
     /\ UNCHANGED <<torrents, stateFiles, restartTimeout, timers, nextTimer, requests,
                    windows, deleteRuns>>
     /\ DeleteUnchanged
     /\ UNCHANGED timeVars

\* removeTorrent step 3: stop, unlink the resume and torrent files of the snapshot's
\* hash, delete the data, ask for the restart, drop the client handle
RemoveFallback(k) ==
  LET r == deletes[k]
      s == scheduleTransmissionRestart(restartTimeout, timers, nextTimer)
  IN /\ r.pc = "fallback"
     /\ stateFiles' = stateFiles \ {r.rmHash}
     /\ restartTimeout' = s.restartTimeout
     /\ timers' = s.timers
     /\ nextTimer' = s.nextTimer
     /\ requests' = requests + 1
     /\ windows' = IF timers = {} /\ DOMAIN executing = {} THEN windows + 1 ELSE windows
     /\ deletes' = [deletes EXCEPT ![k] = Returned([r EXCEPT !.fallback = TRUE])]
     /\ metadata' = RecordAfter(r)
     /\ client' = FALSE
     /\ UNCHANGED <<torrents, deleteRuns>>
     /\ quiet' = 0
     /\ age' = IF restartTimeout = NoTimer THEN 0 ELSE age
     /\ DeleteUnchanged

\* PATCH /:id/block-auto-remove: the lookup has come back.  A lookup that fails is
\* an error response (500), a requester who is neither administrator nor owner
\* gets 403, anybody else has the flag set.
ToggleBlock(actor, id, blocked, reach) ==
  LET torrentHash == Details(id, reach)
      owner == isOwner(metadata, torrentHash, actor.userId)
      status == IF torrentHash = NoString THEN 500
                ELSE IF ~Permitted(actor.isAdmin, owner) THEN 403 ELSE 200
  IN /\ Len(toggled) < MaxToggles
     /\ metadata' = IF status = 200
                    THEN updateTorrentMetadata(metadata, torrentHash, blocked)
                    ELSE metadata
     /\ toggled' = Append(toggled, [userId |-> actor.userId, isAdmin |-> actor.isAdmin,
                                    torrentHash |-> torrentHash, status |-> status])
     /\ client' = TRUE
     /\ UNCHANGED <<feedVars, edgeVars, timeVars, deletes, deleteRuns, torrents, nextTorrentId, clock,
                    stateFiles, diskVars>>

\* what pollFeed does for a matching item, taken alone: the add request and the
\* ownership record of the system identity
RssEnqueue(feedId) ==
  /\ FreshHash
  /\ torrents' = Append(torrents, NewTorrent(nextTorrentId, AllHashes[clock]))
  /\ nextTorrentId' = nextTorrentId + 1
  /\ stateFiles' = stateFiles \cup {AllHashes[clock]}
  /\ metadata' = setTorrentMetadata(metadata, AllHashes[clock], SystemUser, "rss-auto",
                                    [feed_id |-> feedId, feed_url |-> "http://feeds/a"],
                                    clock)
  /\ clock' = clock + 1
  /\ client' = TRUE
  /\ UNCHANGED <<feedVars, routeVars, edgeVars, timeVars, diskVars>>

(***************************************************************************)
(* Specifications.                                                         *)
(***************************************************************************)
PollStep(p) ==
  \/ \E doc \in Docs : PollFetchOk(p, doc)
  \/ PollFetchFail(p)
  \/ PollListOk(p)
  \/ PollListFail(p)
  \/ PollAddOk(p)
  \/ PollAddFail(p)

\* startPolling: the startup timer and every cron tick run the same callback, which
\* calls pollAllFeeds and returns at once; nothing records that a body is running
startPolling(p) == pollAllFeeds(p)

\* the feed scheduler alone: every poll is one that startPolling has triggered
NextSched ==
  \/ \E url \in FeedUrls, rules \in RuleInputs : AllIdle /\ AddFeed(url, rules)
  \/ \E p \in Slots : startPolling(p)
  \/ \E p \in Slots : PollStep(p)

SpecSched == Init /\ [][NextSched]_vars

\* polls overlap freely with each other (a manual trigger during a scheduled poll,
\* two manual triggers); the feed routes are served between polls
Next ==
  \/ \E url \in FeedUrls, rules \in RuleInputs : AllIdle /\ AddFeed(url, rules)
  \/ \E id \in 1..MaxFeeds, updates \in UpdateInputs : AllIdle /\ UpdateFeed(id, updates)
  \/ \E id \in 1..MaxFeeds : AllIdle /\ DeleteFeed(id)
  \/ \E p \in Slots, id \in 1..MaxFeeds : PollOne(p, id)
  \/ \E p \in Slots : ManualPollAll(p)
  \/ \E p \in Slots : ScheduledPollAll(p)
  \/ \E p \in Slots : PollStep(p)

Spec == Init /\ [][Next]_vars

\* as Spec, but no two polls of the same feed overlap
FeedBusy(id) ==
  \E q \in Slots : polls[q].pc # "idle" /\ (polls[q].feedId = id \/ id \in Range(polls[q].queue))

NextCross ==
  \/ \E url \in FeedUrls, rules \in RuleInputs : AllIdle /\ AddFeed(url, rules)
  \/ \E id \in 1..MaxFeeds, updates \in UpdateInputs : AllIdle /\ UpdateFeed(id, updates)
  \/ \E id \in 1..MaxFeeds : AllIdle /\ DeleteFeed(id)
  \/ \E p \in Slots, id \in 1..MaxFeeds : ~FeedBusy(id) /\ PollOne(p, id)
  \/ \E p \in Slots : AllIdle /\ ManualPollAll(p)
  \/ \E p \in Slots : AllIdle /\ ScheduledPollAll(p)
  \/ \E p \in Slots : PollStep(p)

SpecCross == Init /\ [][NextCross]_vars

\* the feed routes with any body, and polls of the feeds they leave in the store;
\* one operation at a time
NextValidate ==
  \/ \E body \in Bodies : AllIdle /\ PostFeed(body)
  \/ \E id \in 1..MaxFeeds, body \in Bodies : AllIdle /\ PutFeed(id, body)
  \/ \E id \in 1..MaxFeeds : AllIdle /\ PollOne(1, id)
  \/ PollStep(1)

SpecValidate == Init /\ [][NextValidate]_vars

\* feeds are created and deleted at any time, also while a poll waits for the
\* network or the engine
NextIds ==
  \/ \E url \in FeedUrls, rules \in RuleInputs : AddFeed(url, rules)
  \/ \E id \in 1..MaxFeeds : DeleteFeed(id)
  \/ \E id \in 1..MaxFeeds : AllIdle /\ PollOne(1, id)
  \/ PollStep(1)

SpecIds == Init /\ [][NextIds]_vars

\* matchesRules applied to one item and one rule set
Evaluate(item, rules) ==
  /\ evaluated' = <<[item |-> item, rules |-> rules, result |-> matchesRules(item, rules)]>>
  /\ UNCHANGED <<feedVars, diskVars, routeVars, torrents, nextTorrentId, metadata, clock,
                 stateFiles, client, egress, lastRequest, created, hashed, timeVars>>

NextRules == \E item \in RuleItems, rules \in RuleSets : Evaluate(item, rules)

SpecRules == Init /\ [][NextRules]_vars

\* getItemHash applied to one parsed entry
Fingerprint(raw) ==
  /\ hashed' = <<[raw |-> raw, hash |-> getItemHash(ParseItem(raw))]>>
  /\ UNCHANGED <<feedVars, diskVars, routeVars, torrents, nextTorrentId, metadata, clock,
                 stateFiles, client, egress, lastRequest, evaluated, created, timeVars>>

NextHash == \E raw \in RawEntries : Fingerprint(raw)

SpecHash == Init /\ [][NextHash]_vars

\* the feed file is damaged behind the application's back (a torn write, a disk
\* error): reading it throws or it is no JSON any more
Corrupt ==
  /\ feedsFile.ok
  /\ feedsFile' = [feedsFile EXCEPT !.ok = FALSE]
  /\ UNCHANGED <<polls, runs, crashes, addRequests, lastResult, effects, answer, diskVars,
                 routeVars, edgeVars, timeVars, torrents, nextTorrentId, metadata, clock,
                 stateFiles, client>>

\* feed operations and polls, one at a time, on a file that may get damaged
NextCorrupt ==
  \/ \E url \in FeedUrls, rules \in RuleInputs : AllIdle /\ AddFeed(url, rules)
  \/ \E id \in 1..MaxFeeds : AllIdle /\ DeleteFeed(id)
  \/ \E id \in 1..MaxFeeds : AllIdle /\ PollOne(1, id)
  \/ PollStep(1)
  \/ Corrupt

SpecCorrupt == Init /\ [][NextCorrupt]_vars

\* one operation at a time: a route or a trigger is served only when no poll is in
\* flight; the process may still die at any point
NextSeq ==
  \/ \E url \in FeedUrls, rules \in RuleInputs : AllIdle /\ AddFeed(url, rules)
  \/ \E id \in 1..MaxFeeds, updates \in UpdateInputs : AllIdle /\ UpdateFeed(id, updates)
  \/ \E id \in 1..MaxFeeds : AllIdle /\ DeleteFeed(id)
  \/ \E p \in Slots, id \in 1..MaxFeeds : AllIdle /\ PollOne(p, id)
  \/ \E p \in Slots : AllIdle /\ ManualPollAll(p)
  \/ \E p \in Slots : AllIdle /\ ScheduledPollAll(p)
  \/ \E p \in Slots : PollStep(p)
  \/ Crash

SpecSeq == Init /\ [][NextSeq]_vars

\* the disk monitor at work while torrents arrive, complete and get blocked; no feed
\* is polled
NextDisk ==
  \/ \E userId \in Users : Upload(userId)
  \/ ExternalAdd
  \/ \E i \in 1..MaxTorrents : Complete(i)
  \/ \E i \in 1..MaxTorrents, blocked \in BOOLEAN :
       SetBlockAutoRemove(AllHashes[i], blocked)
  \/ \E m \in PassSlots : PassStart(m)
  \/ \E m \in PassSlots : PassSessionFail(m)
  \/ \E m \in PassSlots, freePercent \in FreeLevels : PassMeasureFirst(m, freePercent)
  \/ \E m \in PassSlots : PassCandidatesFail(m)
  \/ \E m \in PassSlots : PassCandidates(m)
  \/ \E m \in PassSlots, engineRemoves \in BOOLEAN, reach \in BOOLEAN :
       PassRemoveNative(m, engineRemoves, reach)
  \/ \E m \in PassSlots : PassFallback(m)
  \/ \E m \in PassSlots, freePercent \in FreeLevels : PassMeasure(m, freePercent)
  \/ \E t \in timers : RestartFire(t)
  \/ \E t \in DOMAIN executing : RestartExecOk(t)
  \/ \E t \in DOMAIN executing : RestartExecFail(t)
  \/ \E t \in DOMAIN executing : RestartSettled(t)

SpecDisk == Init /\ [][NextDisk]_vars

\* the delay of the restart timer, in seconds
DebounceWindow == 3

\* a second passes while the restart timer is pending; setTimeout does not fire
\* late, so the clock stops at the delay until the callback has run
Tick ==
  /\ timers # {}
  /\ age < DebounceWindow
  /\ age' = age + 1
  /\ quiet' = IF quiet < DebounceWindow THEN quiet + 1 ELSE quiet
  /\ UNCHANGED <<feedVars, diskVars, routeVars, edgeVars, client, clock, metadata, nextTorrentId,
                 stateFiles, torrents>>

\* the timer fires when its delay has run out, counted from the call that set it
TimedFire(t) ==
  /\ age = DebounceWindow
  /\ RestartFire(t)

\* the disk monitor with the restart timer on the wall clock
NextTimed ==
  \/ \E userId \in Users : Upload(userId)
  \/ \E i \in 1..MaxTorrents : Complete(i)
  \/ \E m \in PassSlots : PassStart(m)
  \/ \E m \in PassSlots, freePercent \in FreeLevels : PassMeasureFirst(m, freePercent)
  \/ \E m \in PassSlots : PassCandidates(m)
  \/ \E m \in PassSlots, engineRemoves \in BOOLEAN, reach \in BOOLEAN :
       PassRemoveNative(m, engineRemoves, reach)
  \/ \E m \in PassSlots : PassFallback(m)
  \/ \E m \in PassSlots, freePercent \in FreeLevels : PassMeasure(m, freePercent)
  \/ \E t \in timers : TimedFire(t)
  \/ \E t \in DOMAIN executing : RestartExecOk(t)
  \/ \E t \in DOMAIN executing : RestartSettled(t)
  \/ Tick

SpecTimed == Init /\ [][NextTimed]_vars

\* the steps that need no new request: an await of a running pass returns, the
\* restart timer fires, the restart command returns, the wait after it ends
PassProgress ==
  \/ \E m \in PassSlots, freePercent \in FreeLevels : PassMeasureFirst(m, freePercent)
  \/ \E m \in PassSlots : PassCandidates(m)
  \/ \E m \in PassSlots, engineRemoves \in BOOLEAN, reach \in BOOLEAN :
       PassRemoveNative(m, engineRemoves, reach)
  \/ \E m \in PassSlots : PassFallback(m)
  \/ \E m \in PassSlots, freePercent \in FreeLevels : PassMeasure(m, freePercent)

RestartProgress ==
  \/ \E t \in timers : RestartFire(t)
  \/ \E t \in DOMAIN executing : RestartExecOk(t)
  \/ \E t \in DOMAIN executing : RestartSettled(t)

\* as SpecDisk with a restart command that always succeeds; timers fire and awaits
\* return
NextDiskLive ==
  \/ \E userId \in Users : Upload(userId)
  \/ ExternalAdd
  \/ \E i \in 1..MaxTorrents : Complete(i)
  \/ \E i \in 1..MaxTorrents, blocked \in BOOLEAN :
       SetBlockAutoRemove(AllHashes[i], blocked)
  \/ \E m \in PassSlots : PassStart(m)
  \/ \E m \in PassSlots : PassSessionFail(m)
  \/ \E m \in PassSlots : PassCandidatesFail(m)
  \/ PassProgress
  \/ RestartProgress

SpecDiskLive ==
  Init /\ [][NextDiskLive]_vars /\ WF_vars(PassProgress) /\ WF_vars(RestartProgress)

\* the torrent routes at work: uploads, feed enqueues, deletes and exemption toggles
\* by the owner, by another user and by an administrator, with an engine whose
\* calls may fail, and the restarts the fallback asks for
NextDelete ==
  \/ \E userId \in Users : Upload(userId)
  \/ RssEnqueue(1)
  \/ ExternalAdd
  \/ \E k \in DeleteSlots, actor \in Actors, id \in 1..MaxTorrents, reach \in BOOLEAN :
       DeleteRequest(k, actor, id, reach)
  \/ \E k \in DeleteSlots, reach \in BOOLEAN : RemoveSnapshot(k, reach)
  \/ \E k \in DeleteSlots, outcome \in {"removed", "noop", "reject"} :
       RemoveRpc(k, outcome)
  \/ \E k \in DeleteSlots, reach \in BOOLEAN : RemoveRequery(k, reach)
  \/ \E k \in DeleteSlots : RemoveFallback(k)
  \/ \E actor \in Actors, id \in 1..MaxTorrents, blocked \in BOOLEAN, reach \in BOOLEAN :
       ToggleBlock(actor, id, blocked, reach)
  \/ \E t \in timers : RestartFire(t)
  \/ \E t \in DOMAIN executing : RestartExecOk(t)
  \/ \E t \in DOMAIN executing : RestartExecFail(t)
  \/ \E t \in DOMAIN executing : RestartSettled(t)

SpecDelete == Init /\ [][NextDelete]_vars

(***************************************************************************)
(* parseFeed up to the HTTP request, one action per await that comes back. *)
(* What a hostname resolves to is the resolver's answer, not the caller's  *)
(* choice: any address, or a failure.                                      *)
(***************************************************************************)
EgressUnchanged ==
  UNCHANGED <<feedVars, diskVars, routeVars, torrents, nextTorrentId, metadata, clock,
              stateFiles, client, lastRequest, evaluated, created, hashed, timeVars>>

\* parseFeed called: new URL(url), the protocol check, then dns.lookup is awaited
ParseFeed(protocol) ==
  /\ egress.pc = "idle"
  /\ egress' = IF protocol \in AllowedProtocols
               THEN [IdleEgress EXCEPT !.pc = "dns", !.protocol = protocol]
               ELSE [IdleEgress EXCEPT !.protocol = protocol,
                                       !.error = "Only HTTP and HTTPS URLs are allowed"]
  /\ EgressUnchanged

\* dns.lookup resolved: the address check, then the abort timer is set and
\* fetch(url) is called
DnsResolved(address) ==
  /\ egress.pc = "dns"
  /\ egress' = IF isPrivateIP(address)
               THEN [egress EXCEPT !.pc = "idle", !.address = address,
                        !.error = "Access to private/internal networks is not allowed"]
               ELSE [egress EXCEPT !.pc = "fetch", !.address = address,
                                   !.requested = TRUE, !.timer = TRUE]
  /\ EgressUnchanged

\* dns.lookup rejected
DnsFailed ==
  /\ egress.pc = "dns"
  /\ egress' = [egress EXCEPT !.pc = "idle", !.error = "DNS lookup failed"]
  /\ EgressUnchanged

\* fetch resolved, which it does when the response headers are in: the abort timer
\* is cleared, a status that is not ok is an error, otherwise the body is piped
\* into the feed parser and the promise waits for the parser's end or error
FetchResponse(ok) ==
  /\ egress.pc = "fetch"
  /\ egress' = IF ok THEN [egress EXCEPT !.pc = "body", !.timer = FALSE]
               ELSE [egress EXCEPT !.pc = "idle", !.timer = FALSE, !.error = "HTTP"]
  /\ EgressUnchanged

\* follow: 3
MaxRedirects == 3

\* the server answers with a redirect and fetch follows it by itself: it resolves
\* the new host and sends the request there; parseFeed is still at its await
FetchRedirect(address) ==
  /\ egress.pc = "fetch"
  /\ egress.redirects < MaxRedirects
  /\ egress' = [egress EXCEPT !.redirects = @ + 1, !.hop = address]
  /\ EgressUnchanged

\* fetch rejected: no connection, too many redirects
FetchRejected ==
  /\ egress.pc = "fetch"
  /\ egress' = [egress EXCEPT !.pc = "idle", !.error = "fetch failed"]
  /\ EgressUnchanged

\* the abort timer fires while fetch is pending: controller.abort() rejects it
FetchTimeout ==
  /\ egress.pc = "fetch"
  /\ egress.timer
  /\ egress' = [egress EXCEPT !.pc = "idle", !.timer = FALSE, !.error = "aborted"]
  /\ EgressUnchanged

\* the body has been read to its end: the parser emits 'end', the promise resolves
BodyEnd ==
  /\ egress.pc = "body"
  /\ egress' = [egress EXCEPT !.pc = "idle"]
  /\ EgressUnchanged

\* the parser cannot make a feed of what it has read: it emits 'error'
BodyError ==
  /\ egress.pc = "body"
  /\ egress' = [egress EXCEPT !.pc = "idle", !.error = "Not a feed"]
  /\ EgressUnchanged

NextEgress ==
  \/ \E protocol \in Protocols : ParseFeed(protocol)
  \/ \E address \in Addresses : DnsResolved(address)
  \/ DnsFailed
  \/ \E ok \in BOOLEAN : FetchResponse(ok)
  \/ \E address \in Addresses : FetchRedirect(address)
  \/ FetchRejected
  \/ FetchTimeout
  \/ BodyEnd
  \/ BodyError

SpecEgress == Init /\ [][NextEgress]_vars

\* what happens without the remote server: the resolver answers or gives up, and a
\* timer that is armed fires.  Whether and when the server sends headers or body
\* data is up to the server.
EgressProgress ==
  \/ \E address \in Addresses : DnsResolved(address)
  \/ DnsFailed
  \/ FetchTimeout

SpecEgressLive == Init /\ [][NextEgress]_vars /\ WF_vars(EgressProgress)

(***************************************************************************)
(* Properties of the feed poll.                                            *)
(***************************************************************************)
Store == load(feedsFile)

InFlight(p) == polls[p].pc # "idle"

PendingHash(p) == getItemHash(polls[p].items[polls[p].idx])

\* C1: a pollFeed that directly follows a completed pollFeed of the same feed on the
\* same document issues no add request, counts every item as already seen and
\* leaves matched_count as it was.
PollingIsIdempotent ==
  lastResult.repeat =>
    /\ lastResult.requests = 0
    /\ lastResult.alreadySeen = Len(lastResult.items)
    /\ lastResult.matchedAfter = lastResult.matchedBefore

\* the second poll of a document whose first poll enqueued an item
RepeatedPollAfterEnqueue ==
  /\ lastResult.repeat
  /\ lastResult.matchedAfter > 0
  /\ \E i \in DOMAIN lastResult.items : addRequests[getItemHash(lastResult.items[i])] = 1

\* C2 as claimed: over non-overlapping polls, crashes and restarts, the add request
\* for a fingerprint is issued at most once.
AtMostOnceEnqueueAcrossCrashes ==
  \A h \in Fingerprints : addRequests[h] <= 1

\* C2 as the code has it: when the add request is out, the fingerprint is in the
\* poll's copy of the ledger and not yet in the file, and every repeat of an add
\* request costs a crash.
EnqueueRepeatsOnlyAfterCrash ==
  /\ \A h \in Fingerprints : addRequests[h] <= 1 + crashes
  /\ \A p \in Slots :
       polls[p].pc = "adding" =>
         /\ PendingHash(p) \in DOMAIN polls[p].data.seenItems
         /\ PendingHash(p) \notin DOMAIN Store.seenItems

\* an item enqueued a second time after a crash that came before the save
EnqueuedAgainAfterCrash ==
  /\ crashes = 1
  /\ \E h \in Fingerprints : addRequests[h] = 2

\* C3: of two overlapping polls of the same feed, at most one enqueues an unseen
\* matching item: they never both have the add request of one item in flight.
SameFeedPollsSerialized ==
  \A p, q \in Slots :
    (p < q /\ polls[p].pc = "adding" /\ polls[q].pc = "adding"
       /\ polls[p].feedId = polls[q].feedId)
    => PendingHash(p) # PendingHash(q)

\* C4: once overlapping polls of different feeds are over, the file holds the seen
\* entries, the matched_count increments and the last_poll of every one of them.
CrossFeedPollsKeepBoth ==
  AllIdle =>
    /\ effects.seen \subseteq DOMAIN Store.seenItems
    /\ \A i \in DOMAIN Store.feeds :
         /\ Store.feeds[i].matched_count = effects.count[Store.feeds[i].id]
         /\ Store.feeds[i].last_poll = effects.stamp[Store.feeds[i].id]

\* C5: no step takes a fingerprint out of the persisted seen-ledger.
SeenLedgerPermanent ==
  [][DOMAIN load(feedsFile).seenItems \subseteq DOMAIN load(feedsFile').seenItems]_vars

\* a fingerprint that outlives the feed that saw it
SeenOutlivesDeletedFeed ==
  \E h \in DOMAIN Store.seenItems : Store.seenItems[h].feed_id \notin FeedIds(Store)

\* C6: the file never holds a part of a poll: while a poll is in flight none of its
\* seen entries, matched_count increments or last_poll is in the file, and after
\* its save all of them are.
AtomicPollPersistence ==
  /\ \A p \in Slots :
       InFlight(p) =>
         LET r == polls[p]
             k == FeedIndex(Store, r.feedId)
         IN /\ r.marked \cap DOMAIN Store.seenItems = {}
            /\ k # 0
            /\ Store.feeds[k].matched_count =
                 r.data.feeds[r.feedIdx].matched_count - r.addedNew
            /\ Store.feeds[k].last_poll = r.data.feeds[r.feedIdx].last_poll
  /\ lastResult.feedId # 0 =>
       LET k == FeedIndex(Store, lastResult.feedId)
       IN /\ lastResult.marked \subseteq DOMAIN Store.seenItems
          /\ k # 0
          /\ Store.feeds[k].matched_count = lastResult.matchedAfter
          /\ Store.feeds[k].last_poll = lastResult.stamp

\* a poll between two of its add requests, with one torrent already enqueued
PollBetweenTwoAdds ==
  \E p \in Slots :
    /\ polls[p].pc = "adding"
    /\ polls[p].addedNew = 1
    /\ polls[p].marked # {}

(***************************************************************************)
(* Properties of the disk monitor and of the debounced restart.            *)
(***************************************************************************)
CandidateIds(r) == {r.candidates[i].id : i \in DOMAIN r.candidates}

CandidateHashes(r) == {r.candidates[i].hashString : i \in DOMAIN r.candidates}

EligibleHashes(ts, md) ==
  {ts[i].hashString : i \in {j \in DOMAIN ts : ts[j].percentDone = 1
                                               /\ ~Blocked(md, ts[j].hashString)}}

NoEvictionAboveThreshold ==
  [][\A m \in PassSlots :
       (passes'[m].first >= Threshold /\ passes'[m] # passes[m])
       => /\ passes'[m].pc = "done"
          /\ passes'[m].issued = 0
          /\ passes'[m].removed = << >>
          /\ passes'[m].message = "Disk space above threshold"
          /\ metadata' = metadata
          /\ torrents' = torrents
          /\ stateFiles' = stateFiles]_vars

\* a pass that measured exactly the threshold and left an eligible torrent alone
PassLeftEligibleTorrent ==
  \E m \in PassSlots :
    /\ passes[m].pc = "done"
    /\ passes[m].first = Threshold
    /\ EligibleHashes(torrents, metadata) # {}

\* C10: a window opens with the request that finds no restart scheduled or running
\* and closes when the handle is cleared.  Every window gets one timer and one
\* restart command, however many requests fall into it, and at no time is more than
\* one restart scheduled or running.
RestartsCollapse ==
  /\ Cardinality(timers) + Cardinality(DOMAIN executing) <= 1
  /\ restartCmds + Cardinality(timers) = windows
  /\ windows <= requests
  /\ (timers # {} \/ DOMAIN executing # {}) => restartTimeout # NoTimer

\* two fallback removals in one window, one restart command
TwoRequestsOneRestart ==
  /\ requests = 2
  /\ windows = 1
  /\ restartCmds = 1
  /\ timers = {}

\* the torrents the engine still holds in memory although their state files are gone
Stale == {torrents[i].hashString : i \in DOMAIN torrents} \ stateFiles

\* C11: a torrent whose state files a fallback removal has deleted does not stay in
\* the engine's memory: an engine restart that begins afterwards drops it.
FallbackRemovalGetsRestart == (Stale # {}) ~> (Stale = {})

(***************************************************************************)
(* Properties of removeTorrent and of the torrent routes.                  *)
(***************************************************************************)
Answered(k) == deletes[k].pc = "done" /\ deletes[k].status = 200

\* C12: a removeTorrent call that has returned took the manual fallback path if and
\* only if its re-query after the native remove call still resolved the torrent.
VerificationDecidesPath ==
  \A k \in DeleteSlots :
    Answered(k) => (deletes[k].fallback <=> deletes[k].requery = "resolves")

\* C13: a removeTorrent call during which no engine call got through (the snapshot
\* query failed and the native remove call was rejected, which leaves out the
\* re-query) does not report success to its caller.
UnreachableEngineIsSurfaced ==
  \A k \in DeleteSlots :
    (deletes[k].snapshot = "failed" /\ deletes[k].rpc = "reject")
    => deletes[k].status # 200

\* whether the ownership record of hashString names userId, in the ledger md
NamesOwner(md, hashString, userId) ==
  /\ hashString # NoString
  /\ hashString \in DOMAIN md
  /\ md[hashString].user_id = userId

\* C14: DELETE /:id goes on to removeTorrent exactly when the requester is an
\* administrator or the record of the torrent's hashString names the requester, and
\* answers 403 with nothing changed otherwise; the route changes the engine, the
\* state files or the ledger only inside a request it has let through, and such a
\* request ends with 200.  PATCH /:id/block-auto-remove sets the flag exactly for
\* an administrator or the owner of a torrent that resolves, and changes nothing
\* otherwise.
OwnershipAuthorization ==
  [][/\ \A k \in DeleteSlots :
          LET q == deletes'[k]
              allowed == q.isAdmin \/ NamesOwner(metadata, q.torrentHash, q.userId)
          IN /\ deleteRuns' = deleteRuns + 1 =>
                  /\ allowed <=> q.pc = "snapshot"
                  /\ ~allowed <=> (q.pc = "done" /\ q.status = 403)
                  /\ <<torrents, metadata, stateFiles>>' = <<torrents, metadata, stateFiles>>
             /\ (deletes[k].pc \in {"rpc", "requery", "fallback"} /\ q.pc = "done")
                  => q.status = 200
     /\ (deletes' # deletes
           /\ <<torrents, metadata, stateFiles>>' # <<torrents, metadata, stateFiles>>)
          => \E k \in DeleteSlots : deletes[k].pc \in {"rpc", "requery", "fallback"}
     /\ Len(toggled') > Len(toggled) =>
          LET q == toggled'[Len(toggled')]
              allowed == q.isAdmin \/ NamesOwner(metadata, q.torrentHash, q.userId)
          IN /\ q.status = 200 <=> (q.torrentHash # NoString /\ allowed)
             /\ q.status # 200 => metadata' = metadata
             /\ <<torrents, stateFiles>>' = <<torrents, stateFiles>>]_vars

\* the other user's toggle was refused and the uploader has deleted the torrent
OwnerDeletedAfterRefusedToggle ==
  /\ Len(toggled) = 1
  /\ toggled[1].status = 403
  /\ toggled[1].userId = 2
  /\ \E k \in DeleteSlots :
       /\ Answered(k)
       /\ ~deletes[k].isAdmin
       /\ deletes[k].torrentHash = toggled[1].torrentHash
       /\ deletes[k].released
       /\ deletes[k].torrentHash \notin DOMAIN metadata

\* C15: an ownership record is deleted only when its torrent is out of the engine:
\* a torrent the engine still holds after the removal attempt keeps its record.
RecordDeletedOnlyWithTorrent ==
  [][\A h \in DOMAIN metadata :
       h \notin DOMAIN metadata' => ~EngineHas(torrents', h)]_vars

\* the add request poll p waits for has come back in this step
AddReturned(p) == polls[p].pc = "adding" /\ polls'[p] # polls[p]

\* ... and it came back with a torrent: the poll counts one more added, in its
\* locals while it goes on and in the result it returns when it ends
AddSucceeded(p) ==
  IF polls'[p].pc = "adding"
  THEN polls'[p].addedNew = polls[p].addedNew + 1
  ELSE lastResult'.matchedAfter - lastResult'.matchedBefore = polls[p].addedNew + 1

\* C16: an add request of a poll that succeeds writes exactly one ownership record,
\* keyed by the hashString the engine returned, owned by the system identity and
\* tagged with the feed; one that fails writes none.
OwnershipRecordOnEnqueue ==
  [][\A p \in Slots : AddReturned(p) =>
       LET r == polls[p]
           h == TorrentOfUrl(r.torrentUrl).hashString
       IN IF AddSucceeded(p)
          THEN /\ DOMAIN metadata' = DOMAIN metadata \cup {h}
               /\ metadata'[h].user_id = SystemUser
               /\ metadata'[h].user_id \notin {a.userId : a \in Actors}
               /\ metadata'[h].extra = [feed_id |-> r.feedId,
                                        feed_url |-> r.data.feeds[r.feedIdx].url]
               /\ \A g \in DOMAIN metadata \ {h} : metadata'[g] = metadata[g]
          ELSE metadata' = metadata]_vars

\* one poll has added Alpha, recorded under the system identity with its feed, and
\* its add request for Beta has failed, leaving no record
FeedRecordAndFailedAdd ==
  /\ AllIdle
  /\ "hA" \in DOMAIN metadata
  /\ metadata["hA"].user_id = SystemUser
  /\ metadata["hA"].extra.feed_id \in 1..MaxFeeds
  /\ addRequests[getItemHash(ParseItem(RawBeta))] > 0
  /\ "hB" \notin DOMAIN metadata

\* the addresses parseFeed is to keep away from: loopback (127/8, ::1), link-local
\* (169.254/16, fe80::/10), the IPv4 private blocks (10/8, 172.16/12, 192.168/16)
\* and IPv6 unique-local (fc00::/7)
Internal(ip) ==
  \/ ip.family = 4 /\ ip.a = 127
  \/ ip.family = 6 /\ ip.a = 0 /\ ip.b = 1
  \/ ip.family = 4 /\ ip.a = 169 /\ ip.b = 254
  \/ ip.family = 6 /\ ip.a \in 65152..65215
  \/ ip.family = 4 /\ ip.a = 10
  \/ ip.family = 4 /\ ip.a = 172 /\ ip.b \in 16..31
  \/ ip.family = 4 /\ ip.a = 192 /\ ip.b = 168
  \/ ip.family = 6 /\ ip.a \in 64512..65023

\* C17: parseFeed issues an HTTP request only for an http or https URL whose
\* hostname resolved to an address outside the loopback, link-local, IPv4 private
\* and IPv6 unique-local ranges; a failed resolution ends in an error, no request.
EgressGuard ==
  /\ egress.requested =>
       egress.protocol \in AllowedProtocols /\ ~Internal(egress.address)
  /\ egress.error = "DNS lookup failed" => ~egress.requested

\* the body has a pattern that is too long or does not compile, or a bad URL
Malformed(body) ==
  \/ body.regex # << >> /\ PatternLength(body.regex[1]) > 200
  \/ body.regex # << >> /\ ~Compiles(body.regex[1])
  \/ body.url # << >> /\ ~IsUrl(body.url[1])

\* every pattern in the store, and in the copy a poll in flight works on, compiles
\* and has at most 200 characters, and no item is rejected for a pattern error
PatternsSound(data) ==
  \A i \in DOMAIN data.feeds :
    /\ Compiles(data.feeds[i].rules.regex)
    /\ PatternLength(data.feeds[i].rules.regex) <= 200
    /\ \A item \in Items : matchesRules(item, data.feeds[i].rules).reason # "error"

\* C18: a create or update request with a malformed pattern or URL is answered 400
\* and leaves the feed store as it was; so every pattern in the store is at most
\* 200 characters long and compiles, and no poll meets a pattern that does not.
RuleValidationAtWriteTime ==
  [][/\ (lastRequest' # lastRequest /\ Malformed(lastRequest'[1].body)) =>
          (lastRequest'[1].status = 400 /\ feedsFile' = feedsFile)
     /\ PatternsSound(load(feedsFile'))
     /\ \A p \in Slots : polls'[p].pc # "idle" => PatternsSound(polls'[p].data)]_vars

\* a feed with the longest pattern allowed was created and polled, then an update
\* of it with a pattern that does not compile was refused
PolledThenRefusedUpdate ==
  /\ lastRequest # << >>
  /\ lastRequest[1].method = "PUT"
  /\ lastRequest[1].body.regex = <<"(">>
  /\ lastRequest[1].status = 400
  /\ \E i \in DOMAIN load(feedsFile).feeds :
       /\ load(feedsFile).feeds[i].id = lastRequest[1].id
       /\ load(feedsFile).feeds[i].rules.regex = Long200
       /\ load(feedsFile).feeds[i].last_poll # NullTime

\* C19: the identifiers addFeed hands out are strictly increasing, so no two feeds
\* ever created share one and the identifier of a deleted feed is not used again.
FeedIdsStrictlyIncreasing ==
  \A i, j \in DOMAIN created : i < j => created[i] < created[j]

\* the three checks, each on its own
TitleMatches(item, rules) == RegexTest(rules.regex, item.title)

HasDownloadUrl(item) ==
  \/ \E i \in DOMAIN item.enclosures :
       /\ item.enclosures[i].type = TorrentMime \/ EndsWithTorrent(item.enclosures[i].url)
       /\ item.enclosures[i].url # NoString
       /\ \A j \in 1..(i - 1) :
            ~(item.enclosures[j].type = TorrentMime \/ EndsWithTorrent(item.enclosures[j].url))
  \/ item.link # NoString /\ (EndsWithTorrent(item.link) \/ HasDownloadMarker(item.link))

\* the size the item's torrent enclosure declares, -1 when it declares none
DeclaredSize(item) ==
  LET e == FindTorrentEnclosure(item.enclosures)
  IN IF e = 0 THEN -1
     ELSE IF item.enclosures[e].length = NoString THEN -1
     ELSE ParseInt(item.enclosures[e].length)

SizeInRange(item, rules) ==
  DeclaredSize(item) = -1
    \/ (DeclaredSize(item) >= rules.minSize /\ DeclaredSize(item) <= rules.maxSize)

\* C20: matchesRules reports the first check that fails, in the order title pattern
\* (case-insensitive), download URL, declared size, and reports a match with a
\* download URL exactly when all three pass.
RuleEvaluationOrder ==
  \A k \in DOMAIN evaluated :
    LET item == evaluated[k].item
        rules == evaluated[k].rules
        result == evaluated[k].result
    IN /\ result.reason = "regex" <=> ~TitleMatches(item, rules)
       /\ result.reason = "no-torrent-link" <=>
            (TitleMatches(item, rules) /\ ~HasDownloadUrl(item))
       /\ result.reason = "size" <=>
            (TitleMatches(item, rules) /\ HasDownloadUrl(item) /\ ~SizeInRange(item, rules))
       /\ result.matches <=>
            (TitleMatches(item, rules) /\ HasDownloadUrl(item) /\ SizeInRange(item, rules))
       /\ result.matches <=> result.torrentUrl # NoString
       /\ (item.title = "ALPHA" /\ rules.regex = "Alpha") => result.reason # "regex"

\* an item whose title fails the pattern and whose declared size is out of range
\* was rejected for the pattern
RejectedForPatternNotSize ==
  /\ evaluated # << >>
  /\ ~TitleMatches(evaluated[1].item, evaluated[1].rules)
  /\ HasDownloadUrl(evaluated[1].item)
  /\ ~SizeInRange(evaluated[1].item, evaluated[1].rules)
  /\ evaluated[1].result.reason = "regex"

\* the first of guid, link, title that an entry has
FirstAvailable(raw) ==
  IF raw.guid # NoString THEN raw.guid
  ELSE IF raw.link # NoString THEN raw.link
  ELSE raw.title

\* C21: the fingerprint of an entry is that of any entry with the same first
\* available field among guid, link, title, whatever their dates, descriptions and
\* enclosures, and differs from that of every entry with another one.
FingerprintStability ==
  \A k \in DOMAIN hashed : \A other \in RawEntries :
    (FirstAvailable(other) = FirstAvailable(hashed[k].raw))
      <=> (getItemHash(ParseItem(other)) = hashed[k].hash)

\* the fingerprint of an entry without guid was taken, and it is the fingerprint
\* of an entry that has the same text as guid, another title, date and enclosures
SameFingerprintAcrossFields ==
  /\ hashed # << >>
  /\ hashed[1].raw.guid = NoString
  /\ hashed[1].raw.link = "urn:2"
  /\ \E other \in RawEntries :
       /\ other.guid = "urn:2"
       /\ other.title # hashed[1].raw.title
       /\ other.pubdate # hashed[1].raw.pubdate
       /\ other.enclosures # hashed[1].raw.enclosures
       /\ getItemHash(ParseItem(other)) = hashed[1].hash

\* the pollFeed of slot p has thrown in this step: it waited for the document or
\* for the torrent list, and the slot is now idle or at the next feed of its batch
\* without the clock having been read for a save
PollThrew(p) ==
  /\ polls[p].pc \in {"fetch", "list"}
  /\ polls'[p] # polls[p]
  /\ polls'[p].pc \in {"fetch", "idle"}
  /\ clock' = clock

FeedIdsOf(results) == [i \in DOMAIN results |-> results[i].feedId]

\* C22: pollAllFeeds gives every feed of its list exactly one result, in order; a
\* poll that throws is recorded as that feed's error, the next feed of the batch is
\* polled all the same, and pollAllFeeds itself does not reject.
BatchFailureIsolation ==
  [][\A p \in Slots : answer'[p].batch =>
       /\ ~answer'[p].threw
       /\ IF polls'[p].pc = "idle"
          THEN answer'[p].ended /\ FeedIdsOf(answer'[p].results) = answer'[p].ids
          ELSE /\ ~answer'[p].ended
               /\ FeedIdsOf(answer'[p].results) \o <<polls'[p].feedId>> \o polls'[p].queue
                    = answer'[p].ids
       /\ (PollThrew(p) /\ answer[p].batch) =>
            /\ answer'[p].results =
                 Append(answer[p].results, [feedId |-> polls[p].feedId, error |-> TRUE])
            /\ polls[p].queue # << >> =>
                 polls'[p].pc = "fetch" /\ polls'[p].feedId = Head(polls[p].queue)]_vars

\* a batch over two feeds has ended: the first feed failed, the second was polled
FirstFailedSecondPolled ==
  \E p \in Slots :
    /\ answer[p].batch /\ answer[p].ended
    /\ answer[p].results = <<[feedId |-> 1, error |-> TRUE], [feedId |-> 2, error |-> FALSE]>>

\* C23: a failed fetch ends that pollFeed at once: the error goes to the caller,
\* the feed is not fetched again in the cycle, no add request is issued, and the
\* store file is what it was.
FetchFailureChangesNothing ==
  [][\A p \in Slots : (polls[p].pc = "fetch" /\ PollThrew(p)) =>
       /\ feedsFile' = feedsFile
       /\ addRequests' = addRequests
       /\ torrents' = torrents /\ metadata' = metadata
       /\ answer'[p].results # << >>
       /\ answer'[p].results[Len(answer'[p].results)]
            = [feedId |-> polls[p].feedId, error |-> TRUE]
       /\ ~answer[p].batch => answer'[p].threw /\ answer'[p].ended
       /\ polls'[p].pc = "fetch" => polls'[p].feedId # polls[p].feedId]_vars

\* a pollFeed has thrown on its fetch and the feed is as it was added: never
\* polled, nothing seen, nothing requested
FetchFailedFeedUntouched ==
  \E p \in Slots :
    /\ answer[p].threw
    /\ answer[p].ids = <<1>>
    /\ polls[p].pc = "idle"
    /\ \E i \in DOMAIN load(feedsFile).feeds :
         /\ load(feedsFile).feeds[i].id = 1
         /\ load(feedsFile).feeds[i].last_poll = NullTime
    /\ DOMAIN load(feedsFile).seenItems = {}
    /\ \A f \in Fingerprints : addRequests[f] = 0

\* the titles of the feed items with fingerprint f
TitlesOf(f) == {item.title : item \in {i \in Items : getItemHash(i) = f}}

\* C24: no add request is issued for an item whose title is the name of a torrent
\* the engine holds at that moment, whenever that torrent was added.
AlreadyExistsGuard ==
  [][\A f \in Fingerprints : addRequests'[f] > addRequests[f] =>
       ~\E i \in DOMAIN torrents' : torrents'[i].name \in TitlesOf(f)]_vars

\* C25: after a failed add request the poll goes on with the next item; when it
\* ends, every item of the document, the failed one included, is in the saved
\* seen-ledger and the failure has not raised matched_count; and no add request is
\* ever issued for an item that is in the saved ledger.
NoRetryAfterFailedAdd ==
  [][/\ \A p \in Slots : (AddReturned(p) /\ ~AddSucceeded(p)) =>
          LET r == polls[p]
          IN IF polls'[p].pc = "adding"
             THEN /\ polls'[p].idx > r.idx
                  /\ getItemHash(r.items[r.idx]) \in DOMAIN polls'[p].data.seenItems
                  /\ polls'[p].data.feeds[r.feedIdx].matched_count
                       = r.data.feeds[r.feedIdx].matched_count
             ELSE /\ \A i \in DOMAIN r.items :
                       getItemHash(r.items[i]) \in DOMAIN load(feedsFile').seenItems
                  /\ load(feedsFile').feeds[r.feedIdx].matched_count
                       = r.data.feeds[r.feedIdx].matched_count
     /\ \A f \in Fingerprints :
          f \in DOMAIN load(feedsFile).seenItems => addRequests'[f] = addRequests[f]]_vars

\* the add of Alpha failed in the first poll; a second poll of the same document
\* has counted it as seen and has not asked again
FailedAddNotRetried ==
  /\ AllIdle
  /\ runs = 2
  /\ addRequests[getItemHash(ParseItem(RawAlpha))] = 1
  /\ torrents = << >>
  /\ getItemHash(ParseItem(RawAlpha)) \in DOMAIN load(feedsFile).seenItems
  /\ lastResult.alreadySeen >= 1
  /\ \A i \in DOMAIN load(feedsFile).feeds : load(feedsFile).feeds[i].matched_count = 0

\* the pollFeed of slot p has returned in this step
PollReturned(p) == polls[p].pc # "idle" /\ polls'[p].pc = "idle" /\ clock' # clock

\* C26: when a poll returns, every item of its document, matching or not, is in
\* the saved seen-ledger, and the items that were in the ledger when it started
\* are counted as already seen; an item that is in the ledger and was never
\* requested stays there and is never requested, whatever the rule becomes.
NonMatchingNeverReevaluated ==
  [][/\ \A p \in Slots : PollReturned(p) =>
          /\ \A i \in DOMAIN lastResult'.items :
               getItemHash(lastResult'.items[i]) \in DOMAIN load(feedsFile').seenItems
          /\ lastResult'.alreadySeen >=
               Cardinality({i \in DOMAIN lastResult'.items :
                  getItemHash(lastResult'.items[i]) \in DOMAIN load(feedsFile).seenItems})
     /\ \A f \in Fingerprints :
          (f \in DOMAIN load(feedsFile).seenItems /\ addRequests[f] = 0) =>
            (f \in DOMAIN load(feedsFile').seenItems /\ addRequests'[f] = 0)]_vars

\* Alpha did not match the first rule; the rule was then changed to one it matches,
\* and the poll after that counted Alpha as already seen and did not request it
SeenBeforeRuleChange ==
  /\ AllIdle
  /\ runs = 2
  /\ lastRequest # << >>
  /\ lastRequest[1].method = "PUT" /\ lastRequest[1].status = 200
  /\ \E i \in DOMAIN load(feedsFile).feeds :
       /\ load(feedsFile).feeds[i].id = lastResult.feedId
       /\ matchesRules(ParseItem(RawAlpha), load(feedsFile).feeds[i].rules).matches
  /\ lastResult.alreadySeen >= 1
  /\ ParseItem(RawAlpha) \in Range(lastResult.items)
  /\ addRequests[getItemHash(ParseItem(RawAlpha))] = 0

\* C27: the restart timer fires only when a full debounce window has passed since
\* the last call of scheduleTransmissionRestart: a call made while a restart is
\* pending postpones the restart to one window after that call.
RestartWaitsForQuietPeriod ==
  [][\A t \in timers : t \notin timers' => quiet >= DebounceWindow]_vars

\* C28: at any time at most one scheduler-triggered poll-all body and at most one
\* scheduler-triggered eviction pass is in flight.
PeriodicTasksDoNotOverlap ==
  /\ Cardinality({p \in Slots : polls[p].pc # "idle"}) <= 1
  /\ Cardinality({m \in PassSlots : passes[m].pc # "idle"}) <= 1

\* C29: a candidate whose removal failed is not listed as removed: every torrent a
\* pass lists as removed is out of the engine, or has had its state files deleted by
\* the fallback and goes with the restart, so that the removed count is the number
\* of torrents the pass has actually removed.
RemovalFailureSkipped ==
  \A m \in PassSlots : \A j \in DOMAIN passes[m].removed :
    LET i == IndexOfId(torrents, passes[m].removed[j].id)
    IN i = 0 \/ torrents[i].hashString \notin stateFiles

\* C30: every parseFeed that starts settles, so that the pollFeed awaiting it ends,
\* also when the server sends the response headers and then stalls the body.
PollsTerminate ==
  (egress.pc # "idle") ~> (egress.pc = "idle")

\* C31: a removeTorrent that takes the fallback path returns while the restart it
\* asked for is still to run, with the client handle empty; and the engine call that
\* follows (the next removeTorrent of the pass) has a handle when it is issued.
RemovalDoesNotWaitForRestart ==
  [][\A m \in PassSlots :
       /\ passes[m].pc = "fallback" /\ passes'[m].pc # "fallback" =>
            /\ ~client'
            /\ restartTimeout' # NoTimer
            /\ restartCmds' = restartCmds
       /\ passes[m].pc # "removing" /\ passes'[m].pc = "removing" => client'
       /\ passes'[m].issued > passes[m].issued => client']_vars

\* the second removeTorrent of a pass is out, after a fallback whose restart has
\* not run yet
RemovedAgainBeforeRestart ==
  \E m \in PassSlots :
    /\ passes[m].issued = 2
    /\ passes[m].pc = "fallback"
    /\ requests = 1
    /\ restartTimeout # NoTimer
    /\ restartCmds = 0
    /\ client

\* C32: for an item that passes the title and link checks and declares a size s,
\* the rule matches exactly when minSize <= s <= maxSize, both ends included and
\* s = 0 not excepted; an item that declares no size is never rejected for size.
SizeRangeInclusive ==
  \A k \in DOMAIN evaluated :
    LET item == evaluated[k].item
        rules == evaluated[k].rules
        result == evaluated[k].result
        s == DeclaredSize(item)
    IN /\ s # -1 /\ TitleMatches(item, rules) /\ HasDownloadUrl(item) =>
            /\ result.matches <=> (rules.minSize <= s /\ s <= rules.maxSize)
            /\ ~result.matches => result.reason = "size"
       /\ s = -1 => result.reason # "size"

\* an item that declares size 0 was rejected for its size by a rule whose minimum
\* is above 0
ZeroSizeRejected ==
  /\ evaluated # << >>
  /\ DeclaredSize(evaluated[1].item) = 0
  /\ evaluated[1].rules.minSize > 0
  /\ evaluated[1].result.reason = "size"

CorruptStoreRecovery ==
  [][~feedsFile.ok /\ AllIdle =>
       /\ \A id \in 1..MaxFeeds : FeedIndex(load(feedsFile), id) = 0
       /\ \A p \in Slots : polls'[p].pc = "idle"
       /\ feedsFile' # feedsFile =>
            /\ feedsFile'.ok
            /\ Len(feedsFile'.doc.feeds) = 1
            /\ feedsFile'.doc.feeds[1].id = 1
            /\ feedsFile'.doc.nextId = 2
            /\ feedsFile'.doc.seenItems = << >>]_vars

\* a feed added to a damaged file that held a feed and a seen item has been polled
PolledAfterRecovery ==
  /\ Len(created) = 2
  /\ created[2] = 1
  /\ feedsFile.ok
  /\ Len(feedsFile.doc.feeds) = 1
  /\ feedsFile.doc.feeds[1].last_poll # NullTime
  /\ effects.seen # {}

\* what the feed routes decide about the feeds of a store: which there are, with
\* which URL and rules
Settings(data) ==
  {[id |-> data.feeds[i].id, url |-> data.feeds[i].url, rules |-> data.feeds[i].rules] :
     i \in DOMAIN data.feeds}

\* C35: the write with which a pollFeed ends leaves the feeds of the file as the
\* feed operations made them: it drops no feed that was added during the poll,
\* reverts no update and brings no deleted feed back.
FeedChangesSurvivePoll ==
  [][(\E p \in Slots : PollReturned(p)) =>
       Settings(load(feedsFile')) = Settings(load(feedsFile))]_vars

\* C36: the torrent that leaves the engine when a pass has removeTorrent called
\* with a candidate's session-local id is the candidate, the torrent with the
\* content identifier the pass selected, also when the engine has restarted and
\* renumbered its torrents since the candidate list was built.
RemovalHitsSelectedTorrent ==
  [][\A m \in PassSlots :
       passes[m].pc = "removing" /\ passes'[m].pc # "removing" =>
         \A i \in DOMAIN torrents :
           ~EngineHas(torrents', torrents[i].hashString) =>
             torrents[i].hashString = passes[m].candidates[passes[m].idx].hashString]_vars

\* C37: when a pass turns to a candidate and calls removeTorrent for it, the
\* candidate's ownership record does not carry block_auto_remove, also when the
\* flag was set after the pass built its candidate list.
ExemptionDuringPassHonoured ==
  [][\A m \in PassSlots :
       (/\ passes'[m].pc = "removing"
        /\ passes[m].pc # "removing" \/ passes'[m].idx # passes[m].idx) =>
         ~Blocked(metadata', passes'[m].candidates[passes'[m].idx].hashString)]_vars

\* C38: no request of parseFeed goes to a loopback, link-local or private address
\* at any hop: a redirect that fetch has followed did not lead to such an address.
EgressGuardCoversRedirects ==
  egress.redirects > 0 => ~Internal(egress.hop)

\* C39: the seen-ledger is one for all feeds: no add request is issued for a
\* fingerprint that is in the persisted ledger, and a poll that returns has not
\* evaluated any item whose fingerprint was there when it started, under whichever
\* feed it was recorded: the entry stays as it was and the item counts as seen.
SeenLedgerSharedByFeeds ==
  [][/\ \A h \in DOMAIN load(feedsFile).seenItems : addRequests'[h] = addRequests[h]
     /\ \A p \in Slots : PollReturned(p) =>
          LET known == {i \in DOMAIN lastResult'.items :
                          getItemHash(lastResult'.items[i])
                            \in DOMAIN load(feedsFile).seenItems}
          IN /\ lastResult'.alreadySeen >= Cardinality(known)
             /\ \A i \in known :
                  LET h == getItemHash(lastResult'.items[i])
                  IN /\ h \notin lastResult'.marked
                     /\ load(feedsFile').seenItems[h] = load(feedsFile).seenItems[h]]_vars

\* feed 2 has been polled on an item that feed 1 had seen and not enqueued, and
\* that matches the rules of feed 2: it was skipped
SkippedWhatOtherFeedSaw ==
  /\ lastResult.feedId = 2
  /\ lastResult.marked = {}
  /\ lastResult.requests = 0
  /\ FeedIndex(load(feedsFile), 2) # 0
  /\ \E i \in DOMAIN lastResult.items :
       LET item == lastResult.items[i]
           h == getItemHash(item)
       IN /\ h \in DOMAIN load(feedsFile).seenItems
          /\ load(feedsFile).seenItems[h].feed_id = 1
          /\ addRequests[h] = 0
          /\ matchesRules(item, load(feedsFile).feeds[FeedIndex(load(feedsFile), 2)].rules).matches

\* C40: a pollFeed run looks at one item per fingerprint: what it has issued in
\* add requests is at most the number of fingerprints it has marked, and when it
\* returns, every item of the document beyond the first of its fingerprint has
\* been counted as already seen and at most one request per fingerprint was made.
DuplicatesEnqueuedOnce ==
  /\ \A p \in Slots :
       LET r == polls[p]
           out == IF r.pc = "adding" THEN 1 ELSE 0
       IN r.pc # "idle" => r.addedNew + r.failedToAdd + out <= Cardinality(r.marked)
  /\ LET distinct == {getItemHash(lastResult.items[i]) : i \in DOMAIN lastResult.items}
     IN /\ lastResult.requests <= Cardinality(distinct)
        /\ lastResult.alreadySeen >= Len(lastResult.items) - Cardinality(distinct)
        /\ lastResult.alreadySeen + Cardinality(lastResult.marked) = Len(lastResult.items)

\* a poll of a document with the same item twice has made one add request
TwinItemsOneRequest ==
  /\ Len(lastResult.items) = 2
  /\ getItemHash(lastResult.items[1]) = getItemHash(lastResult.items[2])
  /\ lastResult.requests = 1
  /\ lastResult.alreadySeen = 1
  /\ addRequests[getItemHash(lastResult.items[1])] = 1

====
